---- MODULE Spec2Model ----
(***************************************************************************)
(* Shipment-simulation assistant (src/app/page.tsx): the order-info        *)
(* extractor, the simulation matcher and the narrative builder.            *)
(*                                                                         *)
(* A text is a sequence of characters.  A character is a one-character     *)
(* string; a character outside ASCII is written by its code point          *)
(* ("U+53F0").  An optional value (null / undefined in the source) is a    *)
(* sequence of length 0 or 1: <<>> is absent, <<v>> is the value v.        *)
(* A free-text field of the fixture is written by its place in the         *)
(* fixture ("4CBTY2.plans[0].label"); the fields that are only copied      *)
(* into the narrative as prose (reason, comment, allocation, risk, note,   *)
(* sku, line, title, ...) are left out of the records.                     *)
(***************************************************************************)
EXTENDS Integers, Sequences, FiniteSets, TLC

VARIABLES
  given,        \* how the input text was put together (its tokens)
  raw,          \* extractOrderInfo's argument
  projectName,  \* simulateShipment's / buildSimulationResponse's argument
  quantity,     \* buildSimulationResponse's optional argument
  orderInfo,    \* extractOrderInfo's result, once called
  simulation,   \* simulateShipment's result, once called
  previous,     \* simulateShipment's result of the call before
  response,     \* buildSimulationResponse's result, once called
  pc,           \* the step the run is at
  \* the pages: component state, refs, timers and requests
  page,                     \* the component that is mounted
  messages,                 \* useState: messages
  inputValue,               \* useState: inputValue
  isGenerating,             \* useState: isGenerating
  isScanning,               \* useState: isScanning (simulation view)
  selectedSchedule,         \* useState: selectedSchedule (simulation view)
  hasQueuedFollowUp,        \* useRef: hasQueuedFollowUp
  responseTimeoutRef,       \* the pending reply timers, oldest first, each with the orderInfo
                            \* its callback holds; the ref holds the last one set
  interval,                 \* the running intro interval, with its index
  followUpTimeout,          \* the follow-up timer is pending
  now,                      \* the readings of Date.now() taken so far
  library,                  \* the schedule arrays of the fixture objects, as they are in memory
  isLoggedIn,               \* useState: isLoggedIn (manager page)
  username,                 \* useState: username (login page)
  password,                 \* useState: password (login page)
  error,                    \* useState: error (login page)
  isLoading,                \* useState: isLoading (login page)
  submission,               \* the login submission that is waiting, with the values it holds
  isLoaded,                 \* useState: isLoaded
  loadTimeout,              \* the timer that sets isLoaded is pending (manager view)
  activeThreadId,           \* useState: activeThreadId (manager view)
  isReferencingHR,          \* useState: isReferencingHR (manager view)
  isReferencingSalesforce,  \* useState: isReferencingSalesforce (manager view)
  request,                  \* the handleSend calls that are awaiting, each with its position
  event                     \* the last step, when it was handleSend or a confirm button

functionVars == <<given, raw, projectName, quantity, orderInfo, simulation, previous, response, pc>>

simulationVars ==
  <<messages, inputValue, isGenerating, isScanning, selectedSchedule, hasQueuedFollowUp,
    responseTimeoutRef, interval, followUpTimeout, now, library>>

loginVars == <<isLoggedIn, username, password, error, isLoading, submission>>

managerVars == <<isLoaded, loadTimeout, activeThreadId, isReferencingHR, isReferencingSalesforce, request>>

pageVars == <<page, simulationVars, loginVars, managerVars, event>>

vars == <<functionVars, pageVars>>

----------------------------------------------------------------------------
(* Texts *)

None == <<>>

Some(v) == <<v>>

\* no page is mounted: a function of the module is called on its own
NoPage ==
  /\ page = "none"
  /\ messages = <<>> /\ inputValue = <<>> /\ isGenerating = FALSE /\ isScanning = FALSE
  /\ selectedSchedule = None /\ hasQueuedFollowUp = FALSE /\ responseTimeoutRef = None
  /\ interval = None /\ followUpTimeout = FALSE /\ now = 0 /\ library = None
  /\ isLoggedIn = FALSE /\ username = <<>> /\ password = <<>> /\ error = <<>>
  /\ isLoading = FALSE /\ submission = None
  /\ isLoaded = FALSE /\ loadTimeout = FALSE /\ activeThreadId = None
  /\ isReferencingHR = FALSE /\ isReferencingSalesforce = FALSE /\ request = None
  /\ event = None

Min(S) == CHOOSE x \in S : \A y \in S : x <= y

RECURSIVE Flatten(_)
Flatten(ts) == IF ts = <<>> THEN <<>> ELSE Head(ts) \o Flatten(Tail(ts))

TokenSeqs(S, n) == UNION {[1..k -> S] : k \in 0..n}

\* WhiteSpace and LineTerminator, as String.prototype.trim and \s take them
IsWhite(c) == c \in {" ", "\t", "\n", "\r", "U+3000"}

RECURSIVE TrimStart(_)
TrimStart(s) == IF s # <<>> /\ IsWhite(Head(s)) THEN TrimStart(Tail(s)) ELSE s

RECURSIVE TrimEnd(_)
TrimEnd(s) ==
  IF s # <<>> /\ IsWhite(s[Len(s)]) THEN TrimEnd(SubSeq(s, 1, Len(s) - 1)) ELSE s

Trim(s) == TrimEnd(TrimStart(s))

UpperOf ==
  [c \in {"a", "b", "c", "e", "k", "m", "s", "t", "x", "y", "z"} |->
     CASE c = "a" -> "A" [] c = "b" -> "B" [] c = "c" -> "C" [] c = "e" -> "E"
       [] c = "k" -> "K" [] c = "m" -> "M" [] c = "s" -> "S" [] c = "t" -> "T"
       [] c = "x" -> "X" [] c = "y" -> "Y" [] c = "z" -> "Z"]

ToUpperChar(c) == IF c \in DOMAIN UpperOf THEN UpperOf[c] ELSE c

ToUpperCase(s) == [i \in 1..Len(s) |-> ToUpperChar(s[i])]

StartsWithAt(s, t, i) ==
  /\ i + Len(t) - 1 <= Len(s)
  /\ \A j \in 1..Len(t) : s[i + j - 1] = t[j]

RECURSIVE IndexOfFrom(_, _, _)
IndexOfFrom(s, t, i) ==
  IF i + Len(t) - 1 > Len(s) THEN 0
  ELSE IF StartsWithAt(s, t, i) THEN i
  ELSE IndexOfFrom(s, t, i + 1)

Includes(s, t) == IndexOfFrom(s, t, 1) # 0

----------------------------------------------------------------------------
(* The fixture *)

LibraryKeys == <<"4CBTY2", "4CBTYK4", "4CBT2", "4CBT3", "4CBTK4", "3CB5", "3CB10", "4CBM10">>

KeyText ==
     "4CBTY2"  :> <<"4", "C", "B", "T", "Y", "2">>
  @@ "4CBTYK4" :> <<"4", "C", "B", "T", "Y", "K", "4">>
  @@ "4CBT2"   :> <<"4", "C", "B", "T", "2">>
  @@ "4CBT3"   :> <<"4", "C", "B", "T", "3">>
  @@ "4CBTK4"  :> <<"4", "C", "B", "T", "K", "4">>
  @@ "3CB5"    :> <<"3", "C", "B", "5">>
  @@ "3CB10"   :> <<"3", "C", "B", "1", "0">>
  @@ "4CBM10"  :> <<"4", "C", "B", "M", "1", "0">>

SIMULATION_LIBRARY ==
     "4CBTY2" :>
    [ defaultQuantity |-> 8, priority |-> "normal",
      references |-> [ conceptLT |-> [days |-> 7],
                       inventory |-> [available |-> 10, reserved |-> 2],
                       productionLoad |-> [utilization |-> 68, severity |-> "medium"] ],
      plans |-> <<
          [label |-> "4CBTY2.plans[0].label", shipDate |-> "2025-11-15", leadTimeDays |-> 5],
          [label |-> "4CBTY2.plans[1].label", shipDate |-> "2025-11-18", leadTimeDays |-> 8] >>,
      history |-> << <<[id |-> "H-3CB5-01", quantity |-> 7], [id |-> "H-3CB5-02", quantity |-> 4]>> >>,
      schedule |-> << <<
          [id |-> "S-3CB5-01", timeFrame |-> "11/11", status |-> "confirmed"],
          [id |-> "S-3CB5-02", timeFrame |-> "11/12", status |-> "confirmed"],
          [id |-> "S-3CB5-03", timeFrame |-> "11/13", status |-> "needs-review"] >> >> ]
  @@ "4CBTYK4" :>
    [ defaultQuantity |-> 4, priority |-> "urgent",
      references |-> [ conceptLT |-> [days |-> 4],
                       inventory |-> [available |-> 5, reserved |-> 1],
                       productionLoad |-> [utilization |-> 82, severity |-> "medium"] ],
      plans |-> <<
          [label |-> "4CBTYK4.plans[0].label", shipDate |-> "2025-11-13", leadTimeDays |-> 3],
          [label |-> "4CBTYK4.plans[1].label", shipDate |-> "2025-11-15", leadTimeDays |-> 5] >>,
      history |-> << <<[id |-> "H-4CBTYK4-01", quantity |-> 5], [id |-> "H-4CBTYK4-02", quantity |-> 3]>> >>,
      schedule |-> << <<
          [id |-> "S-4CBTYK4-01", timeFrame |-> "11/12", status |-> "adjusting"],
          [id |-> "S-4CBTYK4-02", timeFrame |-> "11/12", status |-> "confirmed"],
          [id |-> "S-4CBTYK4-03", timeFrame |-> "11/13", status |-> "needs-review"] >> >> ]
  @@ "4CBT2" :>
    [ defaultQuantity |-> 6, priority |-> "normal",
      references |-> [ conceptLT |-> [days |-> 6],
                       inventory |-> [available |-> 4, reserved |-> 0],
                       productionLoad |-> [utilization |-> 54, severity |-> "low"] ],
      plans |-> <<
          [label |-> "4CBT2.plans[0].label", shipDate |-> "2025-11-16", leadTimeDays |-> 6],
          [label |-> "4CBT2.plans[1].label", shipDate |-> "2025-11-19", leadTimeDays |-> 9] >>,
      history |-> << <<[id |-> "H-4CBT2-01", quantity |-> 8], [id |-> "H-4CBT2-02", quantity |-> 5]>> >>,
      schedule |-> << <<
          [id |-> "S-4CBT2-01", timeFrame |-> "11/11", status |-> "confirmed"],
          [id |-> "S-4CBT2-02", timeFrame |-> "11/12", status |-> "adjusting"],
          [id |-> "S-4CBT2-03", timeFrame |-> "11/14", status |-> "needs-review"] >> >> ]
  @@ "4CBT3" :>
    [ defaultQuantity |-> 7, priority |-> "normal",
      references |-> [ conceptLT |-> [days |-> 7],
                       inventory |-> [available |-> 5, reserved |-> 1],
                       productionLoad |-> [utilization |-> 71, severity |-> "medium"] ],
      plans |-> <<
          [label |-> "4CBT3.plans[0].label", shipDate |-> "2025-11-17", leadTimeDays |-> 7],
          [label |-> "4CBT3.plans[1].label", shipDate |-> "2025-11-20", leadTimeDays |-> 10] >>,
      history |-> << <<[id |-> "H-4CBT3-01", quantity |-> 9], [id |-> "H-4CBT3-02", quantity |-> 4]>> >>,
      schedule |-> << <<
          [id |-> "S-4CBT3-01", timeFrame |-> "11/12", status |-> "adjusting"],
          [id |-> "S-4CBT3-02", timeFrame |-> "11/13", status |-> "confirmed"],
          [id |-> "S-4CBT3-03", timeFrame |-> "11/15", status |-> "needs-review"] >> >> ]
  @@ "4CBTK4" :>
    [ defaultQuantity |-> 5, priority |-> "prototype",
      references |-> [ conceptLT |-> [days |-> 8],
                       inventory |-> [available |-> 6, reserved |-> 0],
                       productionLoad |-> [utilization |-> 38, severity |-> "low"] ],
      plans |-> <<
          [label |-> "4CBTK4.plans[0].label", shipDate |-> "2025-11-16", leadTimeDays |-> 6],
          [label |-> "4CBTK4.plans[1].label", shipDate |-> "2025-11-19", leadTimeDays |-> 9] >>,
      history |-> << <<[id |-> "H-4CBTK4-01", quantity |-> 6], [id |-> "H-4CBTK4-02", quantity |-> 4]>> >>,
      schedule |-> << <<
          [id |-> "S-4CBTK4-01", timeFrame |-> "11/12", status |-> "confirmed"],
          [id |-> "S-4CBTK4-02", timeFrame |-> "11/13", status |-> "adjusting"],
          [id |-> "S-4CBTK4-03", timeFrame |-> "11/15", status |-> "needs-review"] >> >> ]
  @@ "3CB5" :>
    [ defaultQuantity |-> 5, priority |-> "normal",
      references |-> [ conceptLT |-> [days |-> 5],
                       inventory |-> [available |-> 7, reserved |-> 1],
                       productionLoad |-> [utilization |-> 46, severity |-> "low"] ],
      plans |-> <<
          [label |-> "3CB5.plans[0].label", shipDate |-> "2025-11-14", leadTimeDays |-> 4],
          [label |-> "3CB5.plans[1].label", shipDate |-> "2025-11-17", leadTimeDays |-> 7] >>,
      history |-> <<>>,
      schedule |-> <<>> ]
  @@ "3CB10" :>
    [ defaultQuantity |-> 7, priority |-> "normal",
      references |-> [ conceptLT |-> [days |-> 8],
                       inventory |-> [available |-> 6, reserved |-> 0],
                       productionLoad |-> [utilization |-> 75, severity |-> "medium"] ],
      plans |-> <<
          [label |-> "3CB10.plans[0].label", shipDate |-> "2025-11-18", leadTimeDays |-> 8],
          [label |-> "3CB10.plans[1].label", shipDate |-> "2025-11-21", leadTimeDays |-> 11] >>,
      history |-> << <<[id |-> "H-3CB10-01", quantity |-> 9], [id |-> "H-3CB10-02", quantity |-> 6]>> >>,
      schedule |-> << <<
          [id |-> "S-3CB10-01", timeFrame |-> "11/12", status |-> "adjusting"],
          [id |-> "S-3CB10-02", timeFrame |-> "11/13", status |-> "confirmed"],
          [id |-> "S-3CB10-03", timeFrame |-> "11/17", status |-> "needs-review"] >> >> ]
  @@ "4CBM10" :>
    [ defaultQuantity |-> 6, priority |-> "normal",
      references |-> [ conceptLT |-> [days |-> 6],
                       inventory |-> [available |-> 5, reserved |-> 1],
                       productionLoad |-> [utilization |-> 63, severity |-> "medium"] ],
      plans |-> <<
          [label |-> "4CBM10.plans[0].label", shipDate |-> "2025-11-16", leadTimeDays |-> 6],
          [label |-> "4CBM10.plans[1].label", shipDate |-> "2025-11-14", leadTimeDays |-> 4] >>,
      history |-> << <<[id |-> "H-4CBM10-01", quantity |-> 7], [id |-> "H-4CBM10-02", quantity |-> 5]>> >>,
      schedule |-> << <<
          [id |-> "S-4CBM10-01", timeFrame |-> "11/12", status |-> "adjusting"],
          [id |-> "S-4CBM10-02", timeFrame |-> "11/14", status |-> "confirmed"],
          [id |-> "S-4CBM10-03", timeFrame |-> "11/15", status |-> "needs-review"] >> >> ]

DEFAULT_SIMULATION ==
    [ defaultQuantity |-> 5, priority |-> "normal",
      references |-> [ conceptLT |-> [days |-> 6],
                       inventory |-> [available |-> 6, reserved |-> 1],
                       productionLoad |-> [utilization |-> 55, severity |-> "medium"] ],
      plans |-> <<
          [label |-> "default.plans[0].label", shipDate |-> "2025-11-20", leadTimeDays |-> 10] >>,
      history |-> << <<[id |-> "H-DEFAULT-01", quantity |-> 5]>> >>,
      schedule |-> << <<
          [id |-> "S-DEFAULT-01", timeFrame |-> "", status |-> "needs-review"] >> >> ]

----------------------------------------------------------------------------
(* simulateShipment *)

\* as if the test were candidate.includes(upper)
FindKey_Reversed(upper) ==
  LET hits == {i \in 1..Len(LibraryKeys) : Includes(KeyText[LibraryKeys[i]], upper)}
  IN  IF hits = {} THEN None ELSE Some(LibraryKeys[Min(hits)])

\* as if the key standing first in the text were taken
FindKey_FirstInText(upper) ==
  LET hits == {i \in 1..Len(LibraryKeys) : Includes(upper, KeyText[LibraryKeys[i]])}
      at(i) == IndexOfFrom(upper, KeyText[LibraryKeys[i]], 1)
  IN  IF hits = {} THEN None
      ELSE Some(LibraryKeys[CHOOSE i \in hits : \A j \in hits : at(i) < at(j) \/ (at(i) = at(j) /\ i <= j)])

FindKey(upper) ==
  LET hits == {i \in 1..Len(LibraryKeys) : Includes(upper, KeyText[LibraryKeys[i]])}
  IN  IF hits = {} THEN None ELSE Some(LibraryKeys[Min(hits)])

\* as if the name were not put in upper case
simulateShipment_CaseSensitive(name) ==
  LET key == FindKey(Trim(name))
  IN  IF key # None
      THEN [matchedKey |-> key[1]] @@ SIMULATION_LIBRARY[key[1]]
      ELSE [matchedKey |-> "default"] @@ DEFAULT_SIMULATION

simulateShipment(name) ==
  LET normalized == Trim(name)
      upper == ToUpperCase(normalized)
      key == FindKey(upper)
  IN  IF key # None
      THEN [matchedKey |-> key[1]] @@ SIMULATION_LIBRARY[key[1]]
      ELSE [matchedKey |-> "default"] @@ DEFAULT_SIMULATION

----------------------------------------------------------------------------
(* The matcher on its own: a project name is drawn, simulateShipment is     *)
(* called on it twice.                                                      *)

MaxNameTokens == 2

NameTokens ==
  {KeyText[LibraryKeys[i]] : i \in 1..Len(LibraryKeys)} \cup
  { <<"4", "c", "b", "t", "y", "2">>, <<"3", "c", "B", "1", "0">>,
    <<"4", "C", "b", "t", "Y", "k", "4">>,
    <<"4", "C", "B", "T">>, <<"C", "B", "T", "2">>, <<"K", "4">>, <<"y">>, <<"2">>,
    <<" ">>, <<"X">>, <<"-">> }

ProjectNames == {Flatten(ts) : ts \in TokenSeqs(NameTokens, MaxNameTokens)}

InitMatch ==
  /\ projectName \in ProjectNames
  /\ given = None /\ raw = None /\ quantity = None /\ orderInfo = None
  /\ simulation = None /\ previous = None /\ response = None
  /\ pc = "match"
  /\ NoPage

SimulateShipment ==
  /\ pc \in {"match", "again"}
  /\ previous' = simulation
  /\ simulation' = Some(simulateShipment(projectName))
  /\ pc' = IF pc = "match" THEN "again" ELSE "done"
  /\ UNCHANGED <<given, raw, projectName, quantity, orderInfo, response, pageVars>>

SpecMatch == InitMatch /\ [][SimulateShipment]_vars

----------------------------------------------------------------------------
(* extractOrderInfo *)

\* the marker of /U+6848 U+4EF6 U+540D \s*[:U+FF1A]\s*([^\n\r]+)/i
MARKER == <<"U+6848", "U+4EF6", "U+540D">>

\* as if only the half-width colon were taken
Colons_HalfWidth == {":"}

Colons == {":", "U+FF1A"}

LineBreaks == {"\n", "\r"}

\* the alternatives of the boilerplate pattern, in the pattern's order; the
\* third is followed by an optional U+3059
PHRASE_SHIPMENT ==
  <<"U+51FA", "U+8377", "U+30B7", "U+30DF", "U+30E5", "U+30EC", "U+30FC", "U+30B7", "U+30E7", "U+30F3">>

PHRASE_REPLY == <<"U+7D0D", "U+671F", "U+56DE", "U+7B54">>

PHRASE_REQUEST == <<"U+304A", "U+9858", "U+3044", "U+3057", "U+307E">>

PHRASE_PLEASE == <<"U+304F", "U+3060", "U+3055", "U+3044">>

\* the unit alternatives of /(\d{1,4})\s*(U+53F0|U+500B|U+672C|U+30BB U+30C3 U+30C8|set)/i
UNITS == << <<"U+53F0">>, <<"U+500B">>, <<"U+672C">>, <<"U+30BB", "U+30C3", "U+30C8">>, <<"S", "E", "T">> >>

DigitValue ==
  "0" :> 0 @@ "1" :> 1 @@ "2" :> 2 @@ "3" :> 3 @@ "4" :> 4 @@
  "5" :> 5 @@ "6" :> 6 @@ "7" :> 7 @@ "8" :> 8 @@ "9" :> 9

IsDigit(c) == c \in DOMAIN DigitValue

\* the first index from i on that holds no white space (Len(s) + 1 when none)
RECURSIVE SkipWhite(_, _)
SkipWhite(s, i) == IF i <= Len(s) /\ IsWhite(s[i]) THEN SkipWhite(s, i + 1) ELSE i

\* the last index of the line that holds index i
RECURSIVE LineEnd(_, _)
LineEnd(s, i) ==
  IF i + 1 <= Len(s) /\ s[i + 1] \notin LineBreaks THEN LineEnd(s, i + 1) ELSE i

\* \s* gives white space back until [^\n\r]+ can start: the greatest index
\* from hi down to lo that holds a character other than a line break, or 0
RECURSIVE CaptureStart(_, _, _)
CaptureStart(s, hi, lo) ==
  IF hi < lo THEN 0
  ELSE IF hi <= Len(s) /\ s[hi] \notin LineBreaks THEN hi
  ELSE CaptureStart(s, hi - 1, lo)

\* the marker pattern tried at index p: its capture group, or None
MarkerMatchAt(s, p) ==
  IF ~StartsWithAt(s, MARKER, p) THEN None
  ELSE LET c == SkipWhite(s, p + Len(MARKER))
       IN  IF c > Len(s) \/ s[c] \notin Colons THEN None
           ELSE LET from == CaptureStart(s, SkipWhite(s, c + 1), c + 1)
                IN  IF from = 0 THEN None
                    ELSE Some(SubSeq(s, from, LineEnd(s, from)))

RECURSIVE MarkerMatch(_, _)
MarkerMatch(s, p) ==
  IF p > Len(s) THEN None
  ELSE IF MarkerMatchAt(s, p) # None THEN MarkerMatchAt(s, p)
  ELSE MarkerMatch(s, p + 1)

\* raw.split(/\r?\n/)
RECURSIVE SplitLines(_, _)
SplitLines(s, line) ==
  IF s = <<>> THEN <<line>>
  ELSE IF Head(s) = "\n" THEN <<line>> \o SplitLines(Tail(s), <<>>)
  ELSE IF Head(s) = "\r" /\ Len(s) >= 2 /\ s[2] = "\n"
       THEN <<line>> \o SplitLines(Tail(Tail(s)), <<>>)
  ELSE SplitLines(Tail(s), Append(line, Head(s)))

\* .map((line) => line.trim()).find((line) => line.length > 0)
\* as if the first line were taken, blank or not
FirstLine_Any(lines) ==
  IF lines = <<>> THEN None ELSE Some(Trim(Head(lines)))

RECURSIVE FirstLine(_)
FirstLine(lines) ==
  IF lines = <<>> THEN None
  ELSE IF Len(Trim(Head(lines))) > 0 THEN Some(Trim(Head(lines)))
  ELSE FirstLine(Tail(lines))

\* the length of the boilerplate match that starts at index i, or 0
PhraseLengthAt(s, i) ==
  IF StartsWithAt(s, PHRASE_SHIPMENT, i) THEN Len(PHRASE_SHIPMENT)
  ELSE IF StartsWithAt(s, PHRASE_REPLY, i) THEN Len(PHRASE_REPLY)
  ELSE IF StartsWithAt(s, PHRASE_REQUEST, i)
       THEN IF StartsWithAt(s, <<"U+3059">>, i + Len(PHRASE_REQUEST))
            THEN Len(PHRASE_REQUEST) + 1 ELSE Len(PHRASE_REQUEST)
  ELSE IF StartsWithAt(s, PHRASE_PLEASE, i) THEN Len(PHRASE_PLEASE)
  ELSE 0

\* .replace(/.../g, ""): one pass, left to right
RECURSIVE RemovePhrases(_, _)
RemovePhrases(s, i) ==
  IF i > Len(s) THEN <<>>
  ELSE IF PhraseLengthAt(s, i) > 0 THEN RemovePhrases(s, i + PhraseLengthAt(s, i))
  ELSE <<s[i]>> \o RemovePhrases(s, i + 1)

Sanitize(name) ==
  LET sanitized == Trim(RemovePhrases(name, 1))
  IN  IF Len(sanitized) > 0 THEN sanitized ELSE name

UnitAt(s, i) == \E u \in 1..Len(UNITS) : StartsWithAt(ToUpperCase(s), UNITS[u], i)

\* as if the pattern had no \s* between the digits and the unit
DigitsThenUnit_NoSpace(s, p, n) ==
  /\ p + n - 1 <= Len(s)
  /\ \A k \in p..(p + n - 1) : IsDigit(s[k])
  /\ UnitAt(s, p + n)

\* \d{1,4} takes n digits from index p; then \s*, then a unit
DigitsThenUnit(s, p, n) ==
  /\ p + n - 1 <= Len(s)
  /\ \A k \in p..(p + n - 1) : IsDigit(s[k])
  /\ UnitAt(s, SkipWhite(s, p + n))

\* the quantity pattern tried at index p, the longest run of digits first
RECURSIVE QuantityMatchAt(_, _, _)
QuantityMatchAt(s, p, n) ==
  IF n = 0 THEN None
  ELSE IF DigitsThenUnit(s, p, n) THEN Some(SubSeq(s, p, p + n - 1))
  ELSE QuantityMatchAt(s, p, n - 1)

RECURSIVE QuantityMatch(_, _)
QuantityMatch(s, p) ==
  IF p > Len(s) THEN None
  ELSE IF QuantityMatchAt(s, p, 4) # None THEN QuantityMatchAt(s, p, 4)
  ELSE QuantityMatch(s, p + 1)

\* Number.parseInt(digits, 10)
RECURSIVE ParseInt(_)
ParseInt(ds) ==
  IF ds = <<>> THEN 0 ELSE 10 * ParseInt(SubSeq(ds, 1, Len(ds) - 1)) + DigitValue[ds[Len(ds)]]

extractOrderInfo(text) ==
  LET explicit == MarkerMatch(text, 1)
      marked == IF explicit # None THEN Some(Trim(explicit[1])) ELSE None
      candidate == IF marked = None \/ Len(marked[1]) = 0
                   THEN FirstLine(SplitLines(text, <<>>))
                   ELSE marked
      name == IF candidate # None /\ Len(candidate[1]) > 0
              THEN Some(Sanitize(candidate[1]))
              ELSE candidate
      quantityMatch == QuantityMatch(text, 1)
  IN  [ projectName |-> IF name # None /\ Len(name[1]) > 0 THEN name ELSE None,
        quantity |-> IF quantityMatch # None THEN Some(ParseInt(quantityMatch[1])) ELSE None ]

----------------------------------------------------------------------------
(* The extractor on its own: a text is put together from tokens,            *)
(* extractOrderInfo is called on it.                                        *)

TokenText ==
     "marker"   :> MARKER
  @@ "colon"    :> <<":">>
  @@ "wcolon"   :> <<"U+FF1A">>
  @@ "markerc"  :> MARKER \o <<":">>
  @@ "sp"       :> <<" ">>
  @@ "nl"       :> <<"\n">>
  @@ "crlf"     :> <<"\r", "\n">>
  @@ "name"     :> <<"4", "C", "B", "T", "Y", "2">>
  @@ "qty"      :> <<"8", "U+53F0">>
  @@ "shipment" :> PHRASE_SHIPMENT
  @@ "reply"    :> PHRASE_REPLY
  @@ "request"  :> PHRASE_REQUEST
  @@ "requests" :> PHRASE_REQUEST \o <<"U+3059">>
  @@ "please"   :> PHRASE_PLEASE
  @@ "0"        :> <<"0">>
  @@ "8"        :> <<"8">>
  @@ "12"       :> <<"1", "2">>
  @@ "345"      :> <<"3", "4", "5">>
  @@ "dai"      :> <<"U+53F0">>
  @@ "ko"       :> <<"U+500B">>
  @@ "hon"      :> <<"U+672C">>
  @@ "setto"    :> <<"U+30BB", "U+30C3", "U+30C8">>
  @@ "set"      :> <<"s", "e", "t">>
  @@ "Set"      :> <<"S", "e", "t">>
  @@ "x"        :> <<"x">>

TextOf(tokens) == Flatten([i \in 1..Len(tokens) |-> TokenText[tokens[i]]])

MaxBodyTokens == 3

MaxQuantityTokens == 3

Openers ==
  { <<>>, <<"marker">>, <<"marker", "colon">>, <<"marker", "sp", "wcolon", "sp">>,
    <<"name", "sp", "marker", "colon", "sp">> }

BodyTokens ==
  {"sp", "nl", "crlf", "name", "qty", "shipment", "reply", "requests", "request", "please", "markerc"}

QuantityTokens == {"0", "8", "12", "345", "dai", "ko", "hon", "setto", "set", "Set", "sp", "nl", "x"}

NameInputs == {o \o b : o \in Openers, b \in TokenSeqs(BodyTokens, MaxBodyTokens)}

QuantityInputs == TokenSeqs(QuantityTokens, MaxQuantityTokens)

InitExtract ==
  /\ given \in NameInputs \cup QuantityInputs
  /\ raw = Some(TextOf(given))
  /\ projectName = None /\ quantity = None /\ orderInfo = None
  /\ simulation = None /\ previous = None /\ response = None
  /\ pc = "extract"
  /\ NoPage

ExtractOrderInfo ==
  /\ pc = "extract"
  /\ orderInfo' = Some(extractOrderInfo(raw[1]))
  /\ pc' = "reply"
  /\ UNCHANGED <<given, raw, projectName, quantity, simulation, previous, response, pageVars>>

SpecExtract == InitExtract /\ [][ExtractOrderInfo]_vars

----------------------------------------------------------------------------
(* buildSimulationResponse.  The narrative is the list of its lines, each   *)
(* line the template it is made from and the values put into it.            *)

DigitChar == <<"0", "1", "2", "3", "4", "5", "6", "7", "8", "9">>

\* the decimal digits of n >= 0
RECURSIVE Digits(_)
Digits(n) == IF n < 10 THEN <<DigitChar[n + 1]>> ELSE Digits(n \div 10) \o <<DigitChar[(n % 10) + 1]>>

\* `${value}` for an integer
NumberToString(n) == IF n < 0 THEN <<"-">> \o Digits(-n) ELSE Digits(n)

RECURSIVE GroupThousands(_)
GroupThousands(ds) ==
  IF Len(ds) <= 3 THEN ds
  ELSE GroupThousands(SubSeq(ds, 1, Len(ds) - 3)) \o <<",">> \o SubSeq(ds, Len(ds) - 2, Len(ds))

\* new Intl.NumberFormat("ja-JP").format(value) for an integer
formatNumber(n) ==
  IF n < 0 THEN <<"-">> \o GroupThousands(Digits(-n)) ELSE GroupThousands(Digits(n))

\* a quantity in a condition: absent and 0 both count as false
Truthy(q) == q # None /\ q[1] # 0

DiffLine(q, defaultQuantity) ==
  LET diff == IF Truthy(q) THEN q[1] - defaultQuantity ELSE 0
  IN  IF Truthy(q)
      THEN IF diff = 0
           THEN [kind |-> "diff-same"]
           ELSE [kind |-> "diff-delta",
                 delta |-> (IF diff > 0 THEN <<"+">> ELSE <<>>) \o NumberToString(diff),
                 standard |-> formatNumber(defaultQuantity)]
      ELSE [kind |-> "diff-baseline", standard |-> formatNumber(defaultQuantity)]

Blank == [kind |-> "blank"]

Rule == [kind |-> "rule"]

PlanDetails(plan) ==
  << Blank,
     [kind |-> "plan-date", shipDate |-> plan.shipDate, leadTimeDays |-> plan.leadTimeDays],
     [kind |-> "plan-allocation"], [kind |-> "plan-window"],
     [kind |-> "plan-risk"], [kind |-> "plan-note"] >>

\* as if the alternatives were numbered from 0
AlternativeLines_FromZero(plans, index) ==
  Flatten([i \in 1..Len(plans) |->
    <<Blank, Rule, Blank, [kind |-> "alternative", number |-> (i - 1), label |-> plans[i].label]>>
      \o PlanDetails(plans[i])])

\* alternativePlans.forEach((plan, index) => lines.push(...)); index counts from 0
RECURSIVE AlternativeLines(_, _)
AlternativeLines(plans, index) ==
  IF plans = <<>> THEN <<>>
  ELSE <<Blank, Rule, Blank,
         [kind |-> "alternative", number |-> index + 1, label |-> Head(plans).label]>>
       \o PlanDetails(Head(plans))
       \o AlternativeLines(Tail(plans), index + 1)

buildSimulationResponse(name, q) ==
  LET sim == simulateShipment(name)
      requestedQuantity == IF q # None THEN q[1] ELSE sim.defaultQuantity
      primaryPlan == Head(sim.plans)
      alternativePlans == Tail(sim.plans)
      lines ==
        << [kind |-> "project-name", projectName |-> name],
           Blank,
           [kind |-> "template",
            template |-> IF sim.matchedKey = "default" THEN "standard-profile" ELSE sim.matchedKey],
           [kind |-> "priority", priority |-> sim.priority,
            requested |-> formatNumber(requestedQuantity)],
           DiffLine(q, sim.defaultQuantity),
           Blank, Rule, Blank,
           [kind |-> "section-snapshot"],
           Blank,
           [kind |-> "concept-lt-head"],
           [kind |-> "concept-lt", days |-> sim.references.conceptLT.days],
           Blank,
           [kind |-> "inventory-head"],
           [kind |-> "inventory",
            available |-> formatNumber(sim.references.inventory.available),
            reserved |-> formatNumber(sim.references.inventory.reserved)],
           [kind |-> "inventory-comment"],
           Blank,
           [kind |-> "load-head"],
           [kind |-> "load", utilization |-> sim.references.productionLoad.utilization,
            severity |-> sim.references.productionLoad.severity],
           [kind |-> "load-comment"],
           Blank, Rule, Blank,
           [kind |-> "section-plans"],
           Blank,
           [kind |-> "primary", label |-> primaryPlan.label] >>
        \o PlanDetails(primaryPlan)
        \o AlternativeLines(alternativePlans, 0)
        \o << Blank, Rule, Blank, [kind |-> "reference-note"], Blank, [kind |-> "decision"] >>
  IN  [ narrative |-> lines,
        history |-> sim.history,
        schedule |-> sim.schedule,
        shipDate |-> "2025-11-30" ]

----------------------------------------------------------------------------
(* The builder on its own: a project name and a quantity are drawn,         *)
(* buildSimulationResponse is called on them.                               *)

MaxQuantity == 12

BuildNames ==
  {KeyText[LibraryKeys[i]] : i \in 1..Len(LibraryKeys)} \cup
  { <<"X", "Y", "Z", "9", "9", "9">>, <<"4", "c", "b", "m", "1", "0", " ", "-", "2">> }

Quantities == {None} \cup {Some(q) : q \in ((-MaxQuantity)..MaxQuantity) \cup {480, 1000, 9999}}

InitBuild ==
  /\ projectName \in BuildNames
  /\ quantity \in Quantities
  /\ given = None /\ raw = None /\ orderInfo = None
  /\ simulation = None /\ previous = None /\ response = None
  /\ pc = "build"
  /\ NoPage

BuildSimulationResponse ==
  /\ pc = "build"
  /\ response' = Some(buildSimulationResponse(projectName, quantity))
  /\ pc' = "done"
  /\ UNCHANGED <<given, raw, projectName, quantity, orderInfo, simulation, previous, pageVars>>

SpecBuild == InitBuild /\ [][BuildSimulationResponse]_vars

----------------------------------------------------------------------------
(* The path of a submitted message through handleSend: extractOrderInfo on  *)
(* the text, then, in the timer's callback, buildSimulationResponse on the  *)
(* project name and quantity found.  The text is the marker form            *)
(* "<marker>: K n<U+53F0><U+3067><shipment simulation>".                    *)

MaxOrderQuantity == 12

MarkerForm(key, count) ==
  MARKER \o <<":", " ">> \o KeyText[key] \o <<" ">> \o NumberToString(count)
    \o <<"U+53F0", "U+3067">> \o PHRASE_SHIPMENT

InitPipeline ==
  /\ given \in [key : {LibraryKeys[i] : i \in 1..Len(LibraryKeys)}, count : 0..MaxOrderQuantity]
  /\ raw = Some(MarkerForm(given.key, given.count))
  /\ projectName = None /\ quantity = None /\ orderInfo = None
  /\ simulation = None /\ previous = None /\ response = None
  /\ pc = "extract"
  /\ NoPage

\* the callback of responseTimeoutRef
Reply ==
  /\ pc = "reply"
  /\ response' = IF orderInfo[1].projectName # None
                 THEN Some(buildSimulationResponse(orderInfo[1].projectName[1], orderInfo[1].quantity))
                 ELSE None
  /\ pc' = "done"
  /\ UNCHANGED <<given, raw, projectName, quantity, orderInfo, simulation, previous, pageVars>>

NextPipeline == ExtractOrderInfo \/ Reply

SpecPipeline == InitPipeline /\ [][NextPipeline]_vars

----------------------------------------------------------------------------
(* The simulation chat view: Home of src/app/page.tsx.  A message is a      *)
(* record; its content is a text or the narrative lines of the builder.     *)
(* A schedule held by a message or by the calendar modal is an array in     *)
(* memory: either the array of a fixture object (named by the fixture key,  *)
(* its elements are read from library) or an array made by map (it carries  *)
(* its elements).                                                           *)

IntroLength == 2

MaxTurns == 2

\* the first IntroLength characters of the intro text
INTRO_MESSAGE ==
  SubSeq(<<"U+682A", "U+5F0F", "U+4F1A", "U+793E", "U+30E6", "U+30CB", "U+30AB">>, 1, IntroLength)

Text(chars) == [kind |-> "text", text |-> chars, lines |-> <<>>]

Narrative(lines) == [kind |-> "narrative", text |-> <<>>, lines |-> lines]

FOLLOW_UP_MESSAGE == Text(<<"FOLLOW_UP_MESSAGE">>)

GUIDANCE_MESSAGE == Text(<<"GUIDANCE_MESSAGE">>)

SUGGESTED_PROMPTS ==
  << <<
     "U+6848", "U+4EF6", "U+540D", ":", " ", "4", "C", "B", "T", "Y", "2",
     " ", "8", "U+53F0", "U+3067", "U+51FA", "U+8377", "U+30B7", "U+30DF",
     "U+30E5", "U+30EC", "U+30FC", "U+30B7", "U+30E7", "U+30F3" >>,
     <<
     "4", "C", "B", "T", "Y", "K", "4", " ", "U+3092", "U+81F3", "U+6025",
     "U+6848", "U+4EF6", "U+3068", "U+3057", "U+3066", "4", "U+53F0",
     "U+3067", "U+8A55", "U+4FA1", "U+3057", "U+3066" >>,
     <<
     "U+6848", "U+4EF6", "U+540D", ":", " ", "3", "C", "B", "5", " ", "5",
     "U+53F0", " ", "/", " ", "U+88FD", "U+9020", "U+8CA0", "U+8377",
     "U+3092", "U+524D", "U+63D0", "U+306B", "U+63D0", "U+6848", "U+3057",
     "U+3066" >> >>

\* what the user types into the textarea
InputTexts == { <<" ">>, <<"Z", " ", "2", "s", "e", "t">> }

\* message ids: the two fixed ones, and `${prefix}-${Date.now()}`
IntroId == <<"assistant", "fixed", 1>>

FollowUpId == <<"assistant", "fixed", 2>>

StampedId(prefix, t) == <<prefix, "at", t>>

Message(id, role, content, history, schedule, shipDate) ==
  [id |-> id, role |-> role, content |-> content,
   history |-> history, schedule |-> schedule, shipDate |-> shipDate]

\* the schedule arrays of the fixture objects, as authored
AuthoredSchedules ==
  [k \in DOMAIN SIMULATION_LIBRARY \cup {"default"} |->
     IF k = "default" THEN DEFAULT_SIMULATION.schedule ELSE SIMULATION_LIBRARY[k].schedule]

FixtureArray(key) == [array |-> key, blocks |-> <<>>]

NewArray(blocks) == [array |-> "new", blocks |-> blocks]

Elements(a) == IF a.array = "new" THEN a.blocks ELSE library[a.array][1]

\* as if the mapped elements were written into the array map is called on
ArrayMap_InPlace(store, a, mapped) ==
  IF a.array = "new" THEN store ELSE [store EXCEPT ![a.array] = Some(mapped)]

\* Array.prototype.map makes a new array; the mapped one stays as it is
ArrayMap(store, a, mapped) == store

IsIntro(m) == m.id = IntroId

IsUser(m) == m.role = "user"

TurnsTaken == Len(SelectSeq(messages, IsUser))

\* the effect on [messages]: its cleanup clears the follow-up timer, and the
\* timer is set, once, when the intro is shown in full
FollowUpEffect(rendered) ==
  LET intro == SelectSeq(rendered, IsIntro)
  IN  IF intro # <<>> /\ intro[1].content = Text(INTRO_MESSAGE) /\ ~hasQueuedFollowUp
      THEN hasQueuedFollowUp' = TRUE /\ followUpTimeout' = TRUE
      ELSE hasQueuedFollowUp' = hasQueuedFollowUp /\ followUpTimeout' = FALSE

\* what the simulation view leaves alone
notSimulation == <<functionVars, loginVars, managerVars>>

Event(name, via, arg, outcome) == [name |-> name, via |-> via, arg |-> arg, outcome |-> outcome]

\* the last step was none of handleSend, a confirm button, the mount
NoEvent == Event("", "", 0, "")

InitSimulation ==
  /\ page = "simulation"
  /\ messages = <<Message(IntroId, "assistant", Text(<<>>), None, None, None)>>
  /\ inputValue = <<>> /\ isGenerating = FALSE /\ isScanning = FALSE
  /\ selectedSchedule = None /\ hasQueuedFollowUp = FALSE /\ responseTimeoutRef = None
  /\ interval = Some(0) /\ followUpTimeout = FALSE /\ now = 0
  /\ library = AuthoredSchedules
  /\ event = Event("mount", "", 0, "")
  /\ given = None /\ raw = None /\ projectName = None /\ quantity = None /\ orderInfo = None
  /\ simulation = None /\ previous = None /\ response = None /\ pc = "page"
  /\ isLoggedIn = FALSE /\ username = <<>> /\ password = <<>> /\ error = <<>>
  /\ isLoading = FALSE /\ submission = None
  /\ isLoaded = TRUE /\ loadTimeout = FALSE /\ activeThreadId = None
  /\ isReferencingHR = FALSE /\ isReferencingSalesforce = FALSE /\ request = None

\* a timer of the simulation view runs its callback while it is set, whether
\* the view is still mounted or not
TimersRun == page \in {"simulation", "unmounted"}

\* the callback of setInterval in the mount effect
IntroInterval ==
  /\ TimersRun /\ interval # None
  /\ LET index == interval[1] + 1
         rendered == [i \in 1..Len(messages) |->
                        IF messages[i].id = IntroId
                        THEN [messages[i] EXCEPT !.content = Text(SubSeq(INTRO_MESSAGE, 1, index))]
                        ELSE messages[i]]
     IN  /\ messages' = rendered
         /\ interval' = IF index >= Len(INTRO_MESSAGE) THEN None ELSE Some(index)
         /\ FollowUpEffect(rendered)
  /\ event' = NoEvent
  /\ UNCHANGED <<page, inputValue, isGenerating, isScanning, selectedSchedule,
                 responseTimeoutRef, now, library, notSimulation>>

\* the callback of setTimeout in the effect on [messages]
FollowUpTimeout ==
  /\ TimersRun /\ followUpTimeout
  /\ LET rendered == Append(messages,
                            Message(FollowUpId, "assistant", FOLLOW_UP_MESSAGE, None, None, None))
     IN  messages' = rendered /\ FollowUpEffect(rendered)
  /\ event' = NoEvent
  /\ UNCHANGED <<page, inputValue, isGenerating, isScanning, selectedSchedule,
                 responseTimeoutRef, interval, now, library, notSimulation>>

\* onChange of the textarea, which is disabled while isGenerating
SetInputValue ==
  /\ page = "simulation" /\ ~isGenerating
  /\ \E text \in InputTexts : inputValue' = text
  /\ event' = NoEvent
  /\ UNCHANGED <<page, messages, isGenerating, isScanning, selectedSchedule, hasQueuedFollowUp,
                 responseTimeoutRef, interval, followUpTimeout, now, library, notSimulation>>

AwaitingResponse_Never == FALSE

\* the guard of handleSend: a response is awaited
AwaitingResponse == isGenerating

handleSend(preset, via, arg) ==
  LET content == Trim(IF preset # None THEN preset[1] ELSE inputValue)
      info == extractOrderInfo(content)
      hasValidProject == info.projectName # None /\ info.projectName[1] # <<>>
      userMessage == Message(StampedId("user", now), "user", Text(content), None, None, None)
      rendered == Append(messages, userMessage)
  IN  IF AwaitingResponse \/ content = <<>>
      THEN /\ event' = Event("handleSend", via, 0, IF isGenerating THEN "generating" ELSE "blank")
           /\ UNCHANGED <<page, simulationVars, notSimulation>>
      ELSE /\ TurnsTaken < MaxTurns
           /\ messages' = rendered
           /\ inputValue' = <<>>
           /\ isGenerating' = TRUE
           /\ isScanning' = hasValidProject
           /\ responseTimeoutRef' = Append(responseTimeoutRef, info)
           /\ now' = now + 1
           /\ FollowUpEffect(rendered)
           /\ event' = Event("handleSend", via, arg, "accepted")
           /\ UNCHANGED <<page, selectedSchedule, interval, library, notSimulation>>

\* the send button, disabled while isGenerating or while the input is blank
ClickSend ==
  /\ page = "simulation" /\ ~isGenerating /\ Trim(inputValue) # <<>>
  /\ handleSend(None, "button", 0)

\* handleKeyDown: Enter in the textarea, which is disabled while isGenerating
HandleKeyDown ==
  /\ page = "simulation" /\ ~isGenerating
  /\ handleSend(None, "enter", 0)

\* a suggested prompt
ClickPrompt ==
  /\ page = "simulation"
  /\ \E p \in 1..Len(SUGGESTED_PROMPTS) : handleSend(Some(SUGGESTED_PROMPTS[p]), "prompt", p)

\* the message the callback of responseTimeoutRef appends
ReplyMessage(info, t) ==
  IF info.projectName # None /\ info.projectName[1] # <<>>
  THEN LET assistantResponse == buildSimulationResponse(info.projectName[1], info.quantity)
           key == simulateShipment(info.projectName[1]).matchedKey
       IN  Message(StampedId("assistant", t), "assistant", Narrative(assistantResponse.narrative),
                   assistantResponse.history,
                   IF assistantResponse.schedule = None THEN None ELSE Some(FixtureArray(key)),
                   Some(assistantResponse.shipDate))
  ELSE Message(StampedId("assistant", t), "assistant", GUIDANCE_MESSAGE, None, None, None)

Fired_Repeats(timers) == timers

\* setTimeout: the timer whose callback runs is pending no more
Fired(timers) == Tail(timers)

\* the callback of responseTimeoutRef
ResponseTimeout ==
  /\ TimersRun /\ responseTimeoutRef # None
  /\ LET rendered == Append(messages, ReplyMessage(Head(responseTimeoutRef), now))
     IN  messages' = rendered /\ FollowUpEffect(rendered)
  /\ isScanning' = FALSE
  /\ isGenerating' = FALSE
  /\ responseTimeoutRef' = Fired(responseTimeoutRef)
  /\ now' = now + 1
  /\ event' = NoEvent
  /\ UNCHANGED <<page, inputValue, selectedSchedule, interval, library, notSimulation>>

HasSchedule(m) == m.role = "assistant" /\ m.schedule # None /\ Len(Elements(m.schedule[1])) > 0

SameBlock_Any(b, block) == TRUE

\* b.id === block.id
SameBlock(b, block) == b.id = block.id

\* the confirm button of one block of one message
ConfirmBlock ==
  /\ page = "simulation"
  /\ \E i \in 1..Len(messages) :
       /\ HasSchedule(messages[i])
       /\ LET schedule == Elements(messages[i].schedule[1])
          IN  \E n \in 1..Len(schedule) :
                /\ schedule[n].status # "confirmed"
                /\ LET updatedSchedule ==
                         [k \in 1..Len(schedule) |->
                            IF SameBlock(schedule[k], schedule[n])
                            THEN [schedule[k] EXCEPT !.status = "confirmed"]
                            ELSE schedule[k]]
                       rendered ==
                         [j \in 1..Len(messages) |->
                            IF messages[j].id = messages[i].id
                            THEN [messages[j] EXCEPT !.schedule = Some(NewArray(updatedSchedule))]
                            ELSE messages[j]]
                   IN  /\ messages' = rendered
                       /\ library' = ArrayMap(library, messages[i].schedule[1], updatedSchedule)
                       /\ FollowUpEffect(rendered)
                       /\ event' = Event("confirm", "", i, schedule[n].id)
  /\ UNCHANGED <<page, inputValue, isGenerating, isScanning, selectedSchedule,
                 responseTimeoutRef, interval, now, notSimulation>>

\* the heading of a message's schedule opens the calendar modal
OpenCalendar ==
  /\ page = "simulation"
  /\ \E i \in 1..Len(messages) :
       /\ HasSchedule(messages[i])
       /\ selectedSchedule' = Some([schedule |-> messages[i].schedule[1],
                                    shipDate |-> messages[i].shipDate,
                                    messageId |-> Some(messages[i].id)])
       /\ event' = NoEvent
  /\ UNCHANGED <<page, messages, inputValue, isGenerating, isScanning, hasQueuedFollowUp,
                 responseTimeoutRef, interval, followUpTimeout, now, library, notSimulation>>

\* the backdrop and the close button of the modal
CloseCalendar ==
  /\ page = "simulation" /\ selectedSchedule # None
  /\ selectedSchedule' = None
  /\ event' = NoEvent
  /\ UNCHANGED <<page, messages, inputValue, isGenerating, isScanning, hasQueuedFollowUp,
                 responseTimeoutRef, interval, followUpTimeout, now, library, notSimulation>>

SomeUnconfirmed_Always(schedule) == TRUE

\* schedule.some((b) => b.status !== "confirmed")
SomeUnconfirmed(schedule) == \E k \in 1..Len(schedule) : schedule[k].status # "confirmed"

\* the confirm-all button of CalendarView, shown while a block is not confirmed,
\* and onScheduleUpdate of the modal
ConfirmAll ==
  /\ page = "simulation" /\ selectedSchedule # None
  /\ LET schedule == Elements(selectedSchedule[1].schedule)
         updatedSchedule == [k \in 1..Len(schedule) |-> [schedule[k] EXCEPT !.status = "confirmed"]]
         rendered ==
           [j \in 1..Len(messages) |->
              IF Some(messages[j].id) = selectedSchedule[1].messageId
              THEN [messages[j] EXCEPT !.schedule = Some(NewArray(updatedSchedule))]
              ELSE messages[j]]
     IN  /\ SomeUnconfirmed(schedule)
         /\ selectedSchedule' = Some([selectedSchedule[1] EXCEPT !.schedule = NewArray(updatedSchedule)])
         /\ library' = ArrayMap(library, selectedSchedule[1].schedule, updatedSchedule)
         /\ IF selectedSchedule[1].messageId # None
            THEN messages' = rendered /\ FollowUpEffect(rendered)
            ELSE UNCHANGED <<messages, hasQueuedFollowUp, followUpTimeout>>
  /\ event' = Event("confirm-all", "", 0, "")
  /\ UNCHANGED <<page, inputValue, isGenerating, isScanning,
                 responseTimeoutRef, interval, now, notSimulation>>

Cleared_Kept(timers) == timers

\* if (responseTimeoutRef.current) clearTimeout(responseTimeoutRef.current):
\* the ref holds the timer that was set last
Cleared(timers) == IF timers # None THEN SubSeq(timers, 1, Len(timers) - 1) ELSE timers

\* the cleanups of the effects, when the component is torn down
Unmount ==
  /\ page = "simulation"
  /\ page' = "unmounted"
  /\ interval' = None
  /\ responseTimeoutRef' = Cleared(responseTimeoutRef)
  /\ followUpTimeout' = FALSE
  /\ event' = NoEvent
  /\ UNCHANGED <<messages, inputValue, isGenerating, isScanning, selectedSchedule,
                 hasQueuedFollowUp, now, library, notSimulation>>

SimulationView ==
  \/ IntroInterval \/ FollowUpTimeout \/ SetInputValue
  \/ ClickSend \/ HandleKeyDown \/ ClickPrompt \/ ResponseTimeout
  \/ ConfirmBlock \/ OpenCalendar \/ CloseCalendar \/ ConfirmAll
  \/ Unmount

----------------------------------------------------------------------------
(* The login page (LoginPage of src/components/login-page.tsx) and the      *)
(* manager page that shows it until isLoggedIn (Home of                     *)
(* src/unnamed/part_000).                                                   *)

Usernames == { <<"M", "A", "N", "A", "B", "U">>, <<"m", "a", "n", "a", "b", "u">> }

Passwords == { <<"T", "A", "N", "O", "U", "E", "S", "B">>, <<"M", "A", "N", "A", "B", "U">> }

LOGIN_ERROR == <<"LOGIN_ERROR">>

\* the greeting of the manager view, cut to its first IntroLength characters
MANAGER_INTRO_MESSAGE ==
  SubSeq(<<"U+304A", "U+75B2", "U+308C", "U+3055", "U+3093", "U+3002", "U+4ECA">>, 1, IntroLength)

NEW_CHAT_MESSAGE == Text(<<"NEW_CHAT_MESSAGE">>)

ERROR_MESSAGE == Text(<<"ERROR_MESSAGE">>)

ManagerMessage(id, role, content, isReferencingProfile) ==
  [id |-> id, role |-> role, content |-> content, isReferencingProfile |-> isReferencingProfile]

\* what the login page and the manager view leave alone
notManager ==
  <<functionVars, isScanning, selectedSchedule, responseTimeoutRef, followUpTimeout, library>>

InitLogin ==
  /\ page = "login"
  /\ isLoggedIn = FALSE /\ username = <<>> /\ password = <<>> /\ error = <<>>
  /\ isLoading = FALSE /\ submission = None
  /\ messages = <<>> /\ inputValue = <<>> /\ isGenerating = FALSE /\ isScanning = FALSE
  /\ selectedSchedule = None /\ hasQueuedFollowUp = FALSE /\ responseTimeoutRef = None
  /\ interval = None /\ followUpTimeout = FALSE /\ now = 0 /\ library = AuthoredSchedules
  /\ isLoaded = FALSE /\ loadTimeout = FALSE /\ activeThreadId = None
  /\ isReferencingHR = FALSE /\ isReferencingSalesforce = FALSE /\ request = None
  /\ event = Event("mount", "", 0, "")
  /\ given = None /\ raw = None /\ projectName = None /\ quantity = None /\ orderInfo = None
  /\ simulation = None /\ previous = None /\ response = None /\ pc = "page"

\* onChange of the user-name field
SetUsername ==
  /\ page = "login"
  /\ \E u \in Usernames : username' = u
  /\ event' = NoEvent
  /\ UNCHANGED <<page, isLoggedIn, password, error, isLoading, submission,
                 messages, inputValue, isGenerating, hasQueuedFollowUp, interval, now,
                 managerVars, notManager>>

\* onChange of the password field
SetPassword ==
  /\ page = "login"
  /\ \E p \in Passwords : password' = p
  /\ event' = NoEvent
  /\ UNCHANGED <<page, isLoggedIn, username, error, isLoading, submission,
                 messages, inputValue, isGenerating, hasQueuedFollowUp, interval, now,
                 managerVars, notManager>>

\* handleSubmit up to its await; the submit button is disabled while isLoading
HandleSubmit ==
  /\ page = "login" /\ ~isLoading
  /\ error' = <<>>
  /\ isLoading' = TRUE
  /\ submission' = Some([username |-> username, password |-> password])
  /\ event' = Event("handleSubmit", "", 0, "")
  /\ UNCHANGED <<page, isLoggedIn, username, password,
                 messages, inputValue, isGenerating, hasQueuedFollowUp, interval, now,
                 managerVars, notManager>>

\* as if the comparison read the fields as they are when it is made
Credentials_Current == [username |-> username, password |-> password]

\* the values the comparison of handleSubmit reads: those of the render it was called in
Credentials == submission[1]

\* handleSubmit after its await: onLogin mounts ChatInterface in place of the login page
HandleSubmitResumes ==
  /\ page = "login" /\ submission # None
  /\ submission' = None
  /\ IF Credentials.username = <<"M", "A", "N", "A", "B", "U">>
        /\ Credentials.password = <<"T", "A", "N", "O", "U", "E", "S", "B">>
     THEN /\ isLoggedIn' = TRUE
          /\ page' = "manager"
          /\ username' = <<>> /\ password' = <<>> /\ error' = <<>> /\ isLoading' = FALSE
          /\ messages' = <<ManagerMessage(IntroId, "assistant", Text(<<>>), None)>>
          /\ loadTimeout' = TRUE
          /\ event' = Event("login", "", 0, "accepted")
     ELSE /\ error' = LOGIN_ERROR
          /\ isLoading' = FALSE
          /\ event' = Event("login", "", 0, "refused")
          /\ UNCHANGED <<page, isLoggedIn, username, password, messages, loadTimeout>>
  /\ UNCHANGED <<inputValue, isGenerating, hasQueuedFollowUp, interval, now,
                 isLoaded, activeThreadId, isReferencingHR, isReferencingSalesforce, request,
                 notManager>>

LoginPage == SetUsername \/ SetPassword \/ HandleSubmit \/ HandleSubmitResumes

----------------------------------------------------------------------------
(* The manager chat view (ChatInterface of src/unnamed/part_000) *)

hrKeywords ==
  << <<"U+30AD", "U+30E3", "U+30EA", "U+30A2">>,
     <<"U+8A55", "U+4FA1">>,
     <<"U+5F37", "U+307F">>,
     <<"U+7D4C", "U+6B74">>,
     <<"U+5B9F", "U+7E3E">>,
     <<"U+76F8", "U+8AC7">>,
     <<"U+30D7", "U+30ED", "U+30D5", "U+30A3", "U+30FC", "U+30EB">> >>

businessKeywords ==
  << <<"U+55B6", "U+696D", "U+6226", "U+7565">>,
     <<"U+30A2", "U+30AB", "U+30A6", "U+30F3", "U+30C8", "U+30D7", "U+30E9", "U+30F3">>,
     <<"U+63D0", "U+6848">>,
     <<"U+6848", "U+4EF6">>,
     <<"U+30D7", "U+30ED", "U+30B8", "U+30A7", "U+30AF", "U+30C8">> >>

salesforceKeywords ==
  << <<"U+30C8", "U+30E8", "U+30BF">>,
     <<"U+30C8", "U+30E8", "U+30BF", "U+81EA", "U+52D5", "U+8ECA">> >>

MANAGER_SUGGESTED_PROMPTS ==
  << <<"U+55B6", "U+696D", "U+6226", "U+7565", "U+306B", "U+3064", "U+3044", "U+3066",
       "U+306E", "U+3054", "U+76F8", "U+8AC7">>,
     <<"U+30A2", "U+30AB", "U+30A6", "U+30F3", "U+30C8", "U+30D7", "U+30E9", "U+30F3",
       "U+4F5C", "U+6210", "U+306B", "U+3064", "U+3044", "U+3066">>,
     <<"U+4ECA", "U+5F8C", "U+306E", "U+30AD", "U+30E3", "U+30EA", "U+30A2", "U+306B",
       "U+3064", "U+3044", "U+3066">> >>

\* what the user types into the textarea of the manager view
ManagerInputTexts == { <<" ">>, <<"U+30C8", "U+30E8", "U+30BF", "U+306E", "U+8A55", "U+4FA1">> }

\* the outcomes of fetch("/api/chat") and of reading its body
FetchOutcomes == {"ok", "network-error", "not-ok", "bad-json"}

SomeKeyword(keywords, content) == \E k \in 1..Len(keywords) : Includes(content, keywords[k])

shouldShowHrAnimation(content) ==
  /\ SomeKeyword(hrKeywords, content)
  /\ \/ ~SomeKeyword(businessKeywords, content)
     \/ Includes(content, <<"U+30AD", "U+30E3", "U+30EA", "U+30A2">>)
     \/ Includes(content, <<"U+30D7", "U+30ED", "U+30D5", "U+30A3", "U+30FC", "U+30EB">>)

shouldShowSalesforceAnimation(content) == SomeKeyword(salesforceKeywords, content)

\* the effect on [isLoaded, activeThreadId]: its cleanup clears the interval, and a
\* new interval starts when the view is loaded and no thread is active
IntroEffect(loaded, thread) ==
  IF loaded = isLoaded /\ thread = activeThreadId
  THEN interval' = interval
  ELSE interval' = IF loaded /\ thread = None THEN Some(0) ELSE None

\* the effect on [messages] of the manager view: it only sets the flag
ManagerFollowUpEffect(rendered) ==
  LET intro == SelectSeq(rendered, IsIntro)
  IN  hasQueuedFollowUp' =
        (hasQueuedFollowUp \/ (intro # <<>> /\ intro[1].content = Text(MANAGER_INTRO_MESSAGE)))

\* the callback of the timer of the mount effect
LoadTimeout ==
  /\ page = "manager" /\ loadTimeout
  /\ loadTimeout' = FALSE
  /\ isLoaded' = TRUE
  /\ IntroEffect(TRUE, activeThreadId)
  /\ event' = NoEvent
  /\ UNCHANGED <<page, loginVars, messages, inputValue, isGenerating, hasQueuedFollowUp, now,
                 activeThreadId, isReferencingHR, isReferencingSalesforce, request, notManager>>

\* the callback of setInterval in the effect on [isLoaded, activeThreadId]
ManagerIntroInterval ==
  /\ page = "manager" /\ interval # None
  /\ LET index == interval[1] + 1
         rendered == [i \in 1..Len(messages) |->
                        IF messages[i].id = IntroId
                        THEN [messages[i] EXCEPT !.content = Text(SubSeq(MANAGER_INTRO_MESSAGE, 1, index))]
                        ELSE messages[i]]
     IN  /\ messages' = rendered
         /\ interval' = IF index >= Len(MANAGER_INTRO_MESSAGE) THEN None ELSE Some(index)
         /\ ManagerFollowUpEffect(rendered)
  /\ event' = NoEvent
  /\ UNCHANGED <<page, loginVars, inputValue, isGenerating, now, managerVars, notManager>>

\* onChange of the textarea, which is disabled while isGenerating
ManagerSetInputValue ==
  /\ page = "manager" /\ ~isGenerating
  /\ \E text \in ManagerInputTexts : inputValue' = text
  /\ event' = NoEvent
  /\ UNCHANGED <<page, loginVars, messages, isGenerating, hasQueuedFollowUp, interval, now,
                 managerVars, notManager>>

ElseIf_If(first, second) == second

\* if (first) {...} else if (second) {...}: whether the second branch is taken
ElseIf(first, second) == ~first /\ second

\* handleSend of the manager view up to its first await: the animation timer when an
\* animation is shown, else the call of fetch
ManagerHandleSend(preset, via, arg) ==
  LET content == Trim(IF preset # None THEN preset[1] ELSE inputValue)
      userMessage == ManagerMessage(StampedId("user", now), "user", Text(content), None)
      newMessages == Append(messages, userMessage)
      thread == IF activeThreadId = None THEN Some(StampedId("thread", now)) ELSE activeThreadId
      hr == shouldShowHrAnimation(content)
      salesforce == shouldShowSalesforceAnimation(content)
  IN  IF isGenerating \/ content = <<>>
      THEN /\ event' = Event("handleSend", via, 0, IF isGenerating THEN "generating" ELSE "blank")
           /\ UNCHANGED <<page, loginVars, messages, inputValue, isGenerating, hasQueuedFollowUp,
                          interval, now, managerVars, notManager>>
      ELSE /\ now < 2 * MaxTurns
           /\ messages' = newMessages
           /\ inputValue' = <<>>
           /\ isGenerating' = TRUE
           /\ activeThreadId' = thread
           /\ IntroEffect(isLoaded, thread)
           /\ ManagerFollowUpEffect(newMessages)
           /\ isReferencingHR' = hr
           /\ isReferencingSalesforce' = ElseIf(hr, salesforce)
           /\ request' = Append(request, [pc |-> IF hr \/ salesforce THEN "animation" ELSE "fetch",
                                           shouldShowHrAnimation |-> hr])
           /\ now' = now + 1
           /\ event' = Event("handleSend", via, arg, "accepted")
           /\ UNCHANGED <<page, loginVars, isLoaded, loadTimeout, notManager>>

\* the send button, disabled while isGenerating or while the input is blank
ManagerClickSend ==
  /\ page = "manager" /\ ~isGenerating /\ Trim(inputValue) # <<>>
  /\ ManagerHandleSend(None, "button", 0)

\* a suggested prompt
ManagerClickPrompt ==
  /\ page = "manager"
  /\ \E p \in 1..Len(MANAGER_SUGGESTED_PROMPTS) :
       ManagerHandleSend(Some(MANAGER_SUGGESTED_PROMPTS[p]), "prompt", p)

\* handleSend after the animation timer: the flag is cleared and fetch is called
AnimationTimeout ==
  /\ page = "manager"
  /\ \E k \in 1..Len(request) :
       /\ request[k].pc = "animation"
       /\ isReferencingHR' = (IF request[k].shouldShowHrAnimation THEN FALSE ELSE isReferencingHR)
       /\ isReferencingSalesforce' =
            (IF request[k].shouldShowHrAnimation THEN isReferencingSalesforce ELSE FALSE)
       /\ request' = [request EXCEPT ![k].pc = "fetch"]
  /\ event' = NoEvent
  /\ UNCHANGED <<page, loginVars, messages, inputValue, isGenerating, hasQueuedFollowUp,
                 interval, now, isLoaded, loadTimeout, activeThreadId, notManager>>

Returned_Retried(requests, k) == requests

\* handleSend returns after its finally block: the call is pending no more
Returned(requests, k) == SubSeq(requests, 1, k - 1) \o SubSeq(requests, k + 1, Len(requests))

\* handleSend after fetch: the reply, or the message of the catch block, and finally
FetchSettles ==
  /\ page = "manager"
  /\ \E k \in 1..Len(request), outcome \in FetchOutcomes :
       LET assistantMessage ==
             ManagerMessage(StampedId("assistant", now), "assistant", Text(<<"data.content">>),
                            Some(request[k].shouldShowHrAnimation))
           errorMessage == ManagerMessage(StampedId("error", now), "assistant", ERROR_MESSAGE, None)
           rendered == Append(messages, IF outcome = "ok" THEN assistantMessage ELSE errorMessage)
       IN  /\ request[k].pc = "fetch"
           /\ messages' = rendered
           /\ ManagerFollowUpEffect(rendered)
           /\ request' = Returned(request, k)
           /\ event' = Event("fetch", "", 0, outcome)
  /\ isGenerating' = FALSE
  /\ now' = now + 1
  /\ UNCHANGED <<page, loginVars, inputValue, interval, isLoaded, loadTimeout, activeThreadId,
                 isReferencingHR, isReferencingSalesforce, notManager>>

\* the new-chat buttons
handleNewChat ==
  /\ page = "manager"
  /\ LET rendered == <<ManagerMessage(IntroId, "assistant", NEW_CHAT_MESSAGE, None)>>
     IN  messages' = rendered /\ ManagerFollowUpEffect(rendered)
  /\ inputValue' = <<>>
  /\ isLoaded' = FALSE
  /\ activeThreadId' = None
  /\ IntroEffect(FALSE, None)
  /\ event' = Event("handleNewChat", "", 0, "")
  /\ UNCHANGED <<page, loginVars, isGenerating, now, loadTimeout,
                 isReferencingHR, isReferencingSalesforce, request, notManager>>

ManagerView ==
  \/ LoadTimeout \/ ManagerIntroInterval \/ ManagerSetInputValue
  \/ ManagerClickSend \/ ManagerClickPrompt \/ AnimationTimeout \/ FetchSettles
  \/ handleNewChat

----------------------------------------------------------------------------
(* The pages: the simulation page, or the manager page behind its login *)

Init == InitSimulation \/ InitLogin

Next == SimulationView \/ LoginPage \/ ManagerView

Spec == Init /\ [][Next]_vars

\* setTimeout(..., 3000) of handleSend: a pending timer fires.  These are the
\* steps of ResponseTimeout, told by what they do to the timer and the clock.
TimerFires ==
  /\ TimersRun /\ responseTimeoutRef # None
  /\ responseTimeoutRef' = Fired(responseTimeoutRef)
  /\ now' = now + 1
  /\ page' = page

\* The simulation view under a browser that runs the callback of a timer that
\* stays pending; nothing obliges the user to type, click or leave.
SpecLive ==
  InitSimulation /\ [][SimulationView]_vars /\ WF_<<page, responseTimeoutRef, now>>(TimerFires)

NextManager == LoginPage \/ ManagerView

\* The manager page under a browser that runs the callback of a timer that
\* stays set and in which a call of fetch settles; nothing obliges the user
\* to type or click.
SpecManagerLive ==
  /\ InitLogin /\ [][NextManager]_vars
  /\ WF_vars(HandleSubmitResumes) /\ WF_vars(LoadTimeout) /\ WF_vars(ManagerIntroInterval)
  /\ WF_vars(AnimationTimeout) /\ WF_vars(FetchSettles)


----------------------------------------------------------------------------
(* Properties of the matcher *)

\* key k occurs in the name when letter case is ignored
OccursIn(name, k) ==
  \E i \in 1..Len(name) :
    /\ i + Len(KeyText[k]) - 1 <= Len(name)
    /\ \A j \in 1..Len(KeyText[k]) : ToUpperChar(name[i + j - 1]) = KeyText[k][j]

FixtureKeys == {"4CBTY2", "4CBTYK4", "4CBT2", "4CBT3", "4CBTK4", "3CB5", "3CB10", "4CBM10"}

KeysIn(name) == {k \in FixtureKeys : OccursIn(name, k)}

ProfileOf(sim) == [f \in DOMAIN sim \ {"matchedKey"} |-> sim[f]]

\* C1 as stated: a name that contains a fixture key, in any letter case, gets
\* that key's profile with matchedKey equal to that key, and a second call
\* with the same name returns the same result.
C1_EveryContainedKey ==
  simulation # None =>
    /\ \A k \in KeysIn(projectName) :
         /\ simulation[1].matchedKey = k
         /\ ProfileOf(simulation[1]) = SIMULATION_LIBRARY[k]
    /\ pc = "done" => simulation = previous

\* C1 as amended: a name that contains a fixture key, in any letter case, gets
\* the profile of a fixture key it contains, with matchedKey equal to that
\* key; this is the contained key itself when the name contains only one.  A
\* second call with the same name returns the same result.
C1_ContainedKey ==
  (simulation # None /\ KeysIn(projectName) # {}) =>
    /\ simulation[1].matchedKey \in KeysIn(projectName)
    /\ ProfileOf(simulation[1]) = SIMULATION_LIBRARY[simulation[1].matchedKey]
    /\ \A k \in FixtureKeys : KeysIn(projectName) = {k} => simulation[1].matchedKey = k
    /\ pc = "done" => simulation = previous

C1_Witness ==
  /\ pc = "done"
  /\ projectName = <<" ", "4", "c", "b", "t", "y", "2">>
  /\ KeysIn(projectName) = {"4CBTY2"}
  /\ simulation[1].matchedKey = "4CBTY2"
  /\ simulation[1].defaultQuantity = 8
  /\ previous = simulation

\* C2: a name that contains no fixture key gets the default profile (default
\* quantity 5, one plan) with matchedKey "default"; there is always a result.
C2_DefaultOnMiss ==
  (pc # "match" /\ KeysIn(projectName) = {}) =>
    /\ simulation # None
    /\ simulation[1].matchedKey = "default"
    /\ ProfileOf(simulation[1]) = DEFAULT_SIMULATION
    /\ simulation[1].defaultQuantity = 5
    /\ Len(simulation[1].plans) = 1

C2_Witness ==
  /\ pc = "done"
  /\ projectName = <<"4", "C", "B", "T", "X">>
  /\ KeysIn(projectName) = {}
  /\ simulation[1].matchedKey = "default"

\* the order the claim gives
DeclaredOrder == <<"4CBTY2", "4CBTYK4", "4CBT2", "4CBT3", "4CBTK4", "3CB5", "3CB10", "4CBM10">>

\* C3: a name that contains two or more fixture keys gets the one declared
\* first, wherever the keys stand in the name and whatever their lengths.
C3_FirstDeclaredWins ==
  (simulation # None /\ Cardinality(KeysIn(projectName)) >= 2) =>
    \E i \in 1..Len(DeclaredOrder) :
      /\ DeclaredOrder[i] = simulation[1].matchedKey
      /\ DeclaredOrder[i] \in KeysIn(projectName)
      /\ \A j \in 1..(i - 1) : DeclaredOrder[j] \notin KeysIn(projectName)

\* the later declared and longer key stands first in the name, and loses
C3_Witness ==
  /\ pc = "done"
  /\ projectName = <<"4", "C", "B", "T", "K", "4", "C", "B", "T", "2">>
  /\ KeysIn(projectName) = {"4CBTK4", "4CBT2"}
  /\ simulation[1].matchedKey = "4CBT2"

----------------------------------------------------------------------------
(* Properties of the extractor, stated on the tokens the text was put       *)
(* together from.  No boilerplate phrase and no marker spans two tokens.    *)

WhiteTokens == {"sp", "nl", "crlf"}

BreakTokens == {"nl", "crlf"}

PhraseTokens == {"shipment", "reply", "request", "requests", "please"}

MarkerTokens == {"marker", "markerc"}

\* the marker, then white space or none, then a colon, ends at token i
MarkedAt(ts, i) ==
  \/ ts[i] = "markerc"
  \/ /\ ts[i] \in {"colon", "wcolon"}
     /\ \E m \in 1..(i - 1) :
          ts[m] = "marker" /\ \A j \in (m + 1)..(i - 1) : ts[j] \in WhiteTokens

\* the tokens after token i, up to the end of its line
RestOfLine(ts, i) ==
  LET breaks == {j \in (i + 1)..Len(ts) : ts[j] \in BreakTokens}
  IN  SubSeq(ts, i + 1, IF breaks = {} THEN Len(ts) ELSE Min(breaks) - 1)

IsBlank(ts) == \A j \in 1..Len(ts) : ts[j] \in WhiteTokens

NotPhrase(t) == t \notin PhraseTokens

\* the value with the boilerplate phrases taken out and trimmed, or the
\* trimmed value itself when nothing else is left
Stripped(ts) ==
  IF IsBlank(SelectSeq(ts, NotPhrase))
  THEN Trim(TextOf(ts))
  ELSE Trim(TextOf(SelectSeq(ts, NotPhrase)))

\* C4 as stated: when the marker with a colon is followed by a value on the
\* rest of its line, the project name is that value without the boilerplate
\* phrases, trimmed (the value itself when nothing else is left).  Read for
\* the first marker that has such a value.
C4_MarkerValue ==
  orderInfo # None =>
    LET occ == {i \in 1..Len(given) : MarkedAt(given, i) /\ ~IsBlank(RestOfLine(given, i))}
    IN  occ # {} => orderInfo[1].projectName = Some(Stripped(RestOfLine(given, Min(occ))))

\* C4 as amended: when the first marker with a colon in the text is followed
\* by a value on the rest of its line, the project name is that value without
\* the boilerplate phrases, trimmed (the value itself when nothing else is left).
C4_FirstMarkerValue ==
  orderInfo # None =>
    LET occ == {i \in 1..Len(given) : MarkedAt(given, i)}
    IN  (occ # {} /\ ~IsBlank(RestOfLine(given, Min(occ)))) =>
          orderInfo[1].projectName = Some(Stripped(RestOfLine(given, Min(occ))))

C4_Witness ==
  /\ orderInfo # None
  /\ given = <<"marker", "sp", "wcolon", "sp", "name", "sp", "shipment">>
  /\ orderInfo[1].projectName = Some(TokenText["name"])

\* stripping leaves nothing: the value is kept as it is
C4_WitnessKept ==
  /\ orderInfo # None
  /\ given = <<"marker", "colon", "reply", "requests">>
  /\ orderInfo[1].projectName = Some(PHRASE_REPLY \o PHRASE_REQUEST \o <<"U+3059">>)

\* the lines of the text, as tokens
RECURSIVE TokenLines(_, _)
TokenLines(ts, line) ==
  IF ts = <<>> THEN <<line>>
  ELSE IF Head(ts) \in BreakTokens THEN <<line>> \o TokenLines(Tail(ts), <<>>)
  ELSE TokenLines(Tail(ts), Append(line, Head(ts)))

\* C5: without the marker the project name is the first non-blank line,
\* trimmed and without the boilerplate phrases (the line itself when nothing
\* else is left); it is null when every line is blank.
C5_FirstNonBlankLine ==
  (orderInfo # None /\ \A i \in 1..Len(given) : given[i] \notin MarkerTokens) =>
    LET lines == TokenLines(given, <<>>)
        full == {n \in 1..Len(lines) : ~IsBlank(lines[n])}
    IN  IF full = {}
        THEN orderInfo[1].projectName = None
        ELSE orderInfo[1].projectName = Some(Stripped(lines[Min(full)]))

C5_Witness ==
  /\ orderInfo # None
  /\ given = <<"nl", "name", "please">>
  /\ orderInfo[1].projectName = Some(TokenText["name"])

C5_WitnessBlank ==
  /\ orderInfo # None
  /\ given = <<"sp", "crlf", "nl">>
  /\ orderInfo[1].projectName = None

\* a unit token of the claim (U+53F0, U+500B, U+672C, U+30BB U+30C3 U+30C8, set)
\* starts at index j, letter case ignored
UnitStartsAt(s, j) ==
  \/ j <= Len(s) /\ s[j] \in {"U+53F0", "U+500B", "U+672C"}
  \/ j + 2 <= Len(s) /\ <<s[j], s[j + 1], s[j + 2]>> = <<"U+30BB", "U+30C3", "U+30C8">>
  \/ j + 2 <= Len(s) /\ s[j] \in {"s", "S"} /\ s[j + 1] \in {"e", "E"} /\ s[j + 2] \in {"t", "T"}

AllDigits(s, i, j) == \A k \in i..j : k <= Len(s) /\ IsDigit(s[k])

\* the value of a digit sequence, read from the left
RECURSIVE Decimal(_, _)
Decimal(ds, acc) == IF ds = <<>> THEN acc ELSE Decimal(Tail(ds), 10 * acc + DigitValue[Head(ds)])

\* the whole runs of digits that a unit token follows at once: <<first, last>>
RunsBeforeUnit(s) ==
  {r \in (1..Len(s)) \X (1..Len(s)) :
     /\ r[1] <= r[2] /\ AllDigits(s, r[1], r[2])
     /\ (r[1] = 1 \/ ~IsDigit(s[r[1] - 1]))
     /\ UnitStartsAt(s, r[2] + 1)}

\* C6 as stated: the quantity is the value of the leftmost digit sequence that
\* a unit token follows at once, and is absent when there is none.
C6_DigitsBeforeUnit ==
  orderInfo # None =>
    LET runs == RunsBeforeUnit(raw[1])
    IN  IF runs = {}
        THEN orderInfo[1].quantity = None
        ELSE \E r \in runs :
               /\ \A q \in runs : r[1] <= q[1]
               /\ orderInfo[1].quantity = Some(Decimal(SubSeq(raw[1], r[1], r[2]), 0))

\* one to four digits that a unit token follows, with white space or none in
\* between: <<first, last>>
DigitsBeforeUnit(s) ==
  {r \in (1..Len(s)) \X (1..Len(s)) :
     /\ r[1] <= r[2] /\ r[2] - r[1] < 4 /\ AllDigits(s, r[1], r[2])
     /\ \E j \in (r[2] + 1)..Len(s) :
          UnitStartsAt(s, j) /\ \A k \in (r[2] + 1)..(j - 1) : IsWhite(s[k])}

\* C6 as amended: the quantity is the value of the leftmost sequence of one
\* to four digits (of a longer run: its last four) that a unit token follows,
\* with white space or none in between, and is absent when there is none.
C6_UpToFourDigitsBeforeUnit ==
  orderInfo # None =>
    LET found == DigitsBeforeUnit(raw[1])
    IN  IF found = {}
        THEN orderInfo[1].quantity = None
        ELSE \E r \in found :
               /\ \A q \in found : r[1] <= q[1]
               /\ orderInfo[1].quantity = Some(Decimal(SubSeq(raw[1], r[1], r[2]), 0))

\* of the run 12345 the last four digits count
C6_Witness ==
  /\ orderInfo # None
  /\ given = <<"12", "345", "setto">>
  /\ orderInfo[1].quantity = Some(2345)

\* white space between the digits and the unit
C6_WitnessSpace ==
  /\ orderInfo # None
  /\ given = <<"8", "sp", "Set">>
  /\ orderInfo[1].quantity = Some(8)

----------------------------------------------------------------------------
(* Properties of the builder *)

\* the profile the name stands for: that of the first key, in the order the
\* fixture declares, that occurs in the name, or else the default profile
ProfileFor(name) ==
  IF KeysIn(name) = {} THEN DEFAULT_SIMULATION
  ELSE SIMULATION_LIBRARY[DeclaredOrder[Min({i \in 1..Len(DeclaredOrder) : DeclaredOrder[i] \in KeysIn(name)})]]

IsDiffLine(line) == line.kind \in {"diff-same", "diff-delta", "diff-baseline"}

\* the line reports the difference k
ReportsDifference(line, k) ==
  IF k = 0 THEN line.kind = "diff-same"
  ELSE /\ line.kind = "diff-delta"
       /\ Head(line.delta) = (IF k > 0 THEN "+" ELSE "-")
       /\ AllDigits(line.delta, 2, Len(line.delta))
       /\ Decimal(Tail(line.delta), 0) = (IF k > 0 THEN k ELSE -k)

\* C7: with quantity d + k the narrative reports the difference k (the same-
\* as-standard-lot line for k = 0, else the signed k), also for d + k = 0; the
\* baseline line stands only when no quantity was given.
C7_ReportsDelta ==
  response # None =>
    LET diffs == SelectSeq(response[1].narrative, IsDiffLine)
    IN  /\ Len(diffs) = 1
        /\ IF quantity = None
           THEN diffs[1].kind = "diff-baseline"
           ELSE ReportsDifference(diffs[1], quantity[1] - ProfileFor(projectName).defaultQuantity)

IsPlanEntry(line) == line.kind \in {"primary", "alternative"}

\* C8: every profile has a plan, and the plan section of the narrative holds
\* one primary entry, that of the first plan, and after it one entry for each
\* further plan, numbered 1, 2, ... in the order of the plans.
C8_PlanSection ==
  /\ \A k \in FixtureKeys : Len(SIMULATION_LIBRARY[k].plans) >= 1
  /\ Len(DEFAULT_SIMULATION.plans) >= 1
  /\ response # None =>
       LET plans == ProfileFor(projectName).plans
           lines == response[1].narrative
           section == {i \in 1..Len(lines) : lines[i].kind = "section-plans"}
           entries == SelectSeq(lines, IsPlanEntry)
       IN  /\ Cardinality(section) = 1
           /\ \A i \in 1..Len(lines) : IsPlanEntry(lines[i]) => i > Min(section)
           /\ Len(entries) = Len(plans)
           /\ entries[1].kind = "primary" /\ entries[1].label = plans[1].label
           /\ \A n \in 2..Len(entries) :
                /\ entries[n].kind = "alternative"
                /\ entries[n].number = n - 1
                /\ entries[n].label = plans[n].label

C8_Witness ==
  /\ response # None
  /\ projectName = KeyText["4CBM10"]
  /\ Len(SelectSeq(response[1].narrative, IsPlanEntry)) = 2
  /\ SelectSeq(response[1].narrative, IsPlanEntry)[2].number = 1

\* C9: the ship date returned is that of the primary plan of the profile.
C9_ShipDateOfPrimaryPlan ==
  response # None => response[1].shipDate = ProfileFor(projectName).plans[1].shipDate

----------------------------------------------------------------------------
(* Properties of the path of a marker-form message *)

IsTemplateLine(line) == line.kind = "template"

\* C10: for the marker form with key K and quantity n the extractor gives
\* project name K and quantity n, the matcher hits K, and the narrative
\* reports the difference n - defaultQuantity(K).
C10_MarkerFormEndToEnd ==
  pc = "done" =>
    /\ orderInfo[1].projectName = Some(KeyText[given.key])
    /\ orderInfo[1].quantity = Some(given.count)
    /\ response # None
    /\ SelectSeq(response[1].narrative, IsTemplateLine)[1].template = given.key
    /\ ReportsDifference(SelectSeq(response[1].narrative, IsDiffLine)[1],
                         given.count - SIMULATION_LIBRARY[given.key].defaultQuantity)

----------------------------------------------------------------------------
(* Properties of the lists returned by the builder *)

\* C19: for every project name, matched or not, the builder returns a
\* history list and a schedule list: either may be empty, neither is absent.
C19_ListsNeverAbsent ==
  response # None => response[1].history # None /\ response[1].schedule # None

----------------------------------------------------------------------------
(* Properties of the simulation chat view *)

\* the text a run of handleSend was given: the prompt, or else the input
Submitted(e) == IF e.via = "prompt" /\ e.arg > 0 THEN SUGGESTED_PROMPTS[e.arg] ELSE inputValue

IsGuidance(m) ==
  /\ m.role = "assistant" /\ m.content = GUIDANCE_MESSAGE
  /\ m.history = None /\ m.schedule = None /\ m.shipDate = None

\* C11: when the user submits a text with no parseable project name (a blank
\* one, say), the extractor gives no project name and the view answers with
\* the guidance message: the submission starts a reply whose message is the
\* guidance message, without history, schedule or ship date.
C11_GuidanceOnNoProjectName ==
  [][ ( /\ page = "simulation" /\ ~isGenerating
        /\ event'.name = "handleSend" /\ event'.via = "enter"
        /\ extractOrderInfo(inputValue).projectName = None )
      => ( /\ responseTimeoutRef' # None
           /\ IsGuidance(ReplyMessage(responseTimeoutRef'[Len(responseTimeoutRef')], now')) ) ]_vars

----------------------------------------------------------------------------
(* Properties of both chat views *)

InChatView == page \in {"simulation", "manager"}

\* the reply timers and the calls of /api/chat that are outstanding
Outstanding == Len(responseTimeoutRef) + Len(request)

\* C12: in both chat views at most one request is outstanding, and only
\* while the generating flag is set; a run of handleSend while the flag is
\* set appends no message, starts no timer and no call, and leaves the input
\* text as it is.
C12_OneOutstandingRequest ==
  /\ [](InChatView => Outstanding <= 1 /\ (Outstanding = 1 => isGenerating))
  /\ [][ (InChatView /\ isGenerating /\ event'.name = "handleSend")
         => ( /\ messages' = messages /\ inputValue' = inputValue
              /\ responseTimeoutRef' = responseTimeoutRef /\ request' = request
              /\ isGenerating' ) ]_vars

\* a suggested prompt was clicked while the reply of the simulation view was awaited
C12_Witness ==
  /\ page = "simulation" /\ isGenerating /\ Len(responseTimeoutRef) = 1
  /\ event = Event("handleSend", "prompt", 0, "generating")

\* the same in the manager view, while the call of /api/chat was in flight
C12_WitnessManager ==
  /\ page = "manager" /\ isGenerating /\ Len(request) = 1 /\ request[1].pc = "fetch"
  /\ event = Event("handleSend", "prompt", 0, "generating")

----------------------------------------------------------------------------
(* Properties of the turns of the simulation chat view *)

IsStamped(m) == m.id[2] = "at"

\* the messages of the turns: those that handleSend and its timer appended
TurnMessages == SelectSeq(messages, IsStamped)

\* C13: in the simulation view an accepted submission (a non-blank text
\* while idle) sets the generating flag and appends the user message at once;
\* the user messages and the replies alternate, one reply for each user
\* message and after it; the step that appends the reply clears the
\* generating and the scanning flag; and unless the view is torn down, a
\* pending turn is followed by that step.
C13_TurnEndsWithOneReply ==
  /\ [][ ( /\ page = "simulation" /\ ~isGenerating /\ event'.name = "handleSend"
           /\ Trim(Submitted(event')) # <<>> )
         => ( /\ isGenerating'
              /\ messages' = Append(messages, messages'[Len(messages')])
              /\ messages'[Len(messages')].role = "user"
              /\ messages'[Len(messages')].content = Text(Trim(Submitted(event'))) ) ]_vars
  /\ [](page = "simulation" =>
          /\ \A i \in 1..Len(TurnMessages) :
               TurnMessages[i].role = (IF i % 2 = 1 THEN "user" ELSE "assistant")
          /\ isGenerating <=> (Len(TurnMessages) % 2 = 1)
          /\ isScanning => isGenerating)
  /\ [][ (page = "simulation" /\ isGenerating /\ ~isGenerating')
         => ( /\ messages' = Append(messages, messages'[Len(messages')])
              /\ messages'[Len(messages')].role = "assistant"
              /\ IsStamped(messages'[Len(messages')])
              /\ ~isScanning' ) ]_vars
  /\ ((page = "simulation" /\ isGenerating) ~> (page = "unmounted" \/ ~isGenerating))

\* the second turn has ended: two user messages, each with its reply
C13_Witness ==
  /\ page = "simulation" /\ ~isGenerating /\ ~isScanning
  /\ Len(TurnMessages) = 4
  /\ TurnMessages[3].role = "user" /\ TurnMessages[4].role = "assistant"

\* the blocks a message shows, its schedule array being read in the given store
BlocksOf(m, store) ==
  IF m.schedule = None THEN <<>>
  ELSE IF m.schedule[1].array = "new" THEN m.schedule[1].blocks
  ELSE store[m.schedule[1].array][1]

\* C14: a step of the confirm button of one block of one message leaves the
\* number of messages as it is; every other message, and what it shows of
\* its schedule, stays the same, also where it was built from the same
\* fixture key; of the message itself only the schedule changes; the
\* schedule keeps its length; the block of the button, the only one with
\* its id, differs from before in its status alone, which is confirmed; and
\* every other block of the schedule stays the same.
C14_ConfirmOneBlock ==
  [][ event'.name = "confirm" =>
        LET i == event'.arg
            before == BlocksOf(messages[i], library)
            after == BlocksOf(messages'[i], library')
        IN  /\ Len(messages') = Len(messages)
            /\ \A j \in 1..Len(messages) :
                  j # i => /\ messages'[j] = messages[j]
                           /\ BlocksOf(messages'[j], library') = BlocksOf(messages[j], library)
            /\ [messages'[i] EXCEPT !.schedule = None] = [messages[i] EXCEPT !.schedule = None]
            /\ Len(after) = Len(before)
            /\ Cardinality({k \in 1..Len(before) : before[k].id = event'.outcome}) = 1
            /\ \A k \in 1..Len(before) :
                  IF before[k].id = event'.outcome
                  THEN /\ before[k].status # "confirmed"
                       /\ after[k] = [before[k] EXCEPT !.status = "confirmed"]
                  ELSE after[k] = before[k] ]_vars

\* a block was confirmed in one of two messages built from the same fixture
\* key; the other message shows the block as authored, not confirmed
C14_Witness ==
  /\ event.name = "confirm"
  /\ \E j \in 1..Len(messages) :
        /\ j # event.arg
        /\ messages[j].schedule # None /\ messages[j].schedule[1].array # "new"
        /\ \E k \in 1..Len(BlocksOf(messages[j], library)) :
              /\ BlocksOf(messages[j], library)[k].id = event.outcome
              /\ BlocksOf(messages[j], library)[k].status # "confirmed"
              /\ BlocksOf(messages[event.arg], library)[k].status = "confirmed"

\* the blocks, each with the status confirmed
AllConfirmed(blocks) == [k \in 1..Len(blocks) |-> [blocks[k] EXCEPT !.status = "confirmed"]]

\* the blocks of the schedule the calendar modal holds
ModalBlocks(selected, store) ==
  IF selected.schedule.array = "new" THEN selected.schedule.blocks
  ELSE store[selected.schedule.array][1]

\* C15: a step of the confirm-all button is taken with the modal open on a
\* schedule of which some block is not confirmed; after it the modal holds
\* the same blocks in the same order, each confirmed and otherwise as
\* before; one message has the id the modal was opened with, and it shows
\* its own blocks in the same order, each confirmed and otherwise as before,
\* its other fields being the same; and every other message, and what it
\* shows of its schedule, is the same as before.
C15_ConfirmAll ==
  [][ event'.name = "confirm-all" =>
        /\ selectedSchedule # None /\ selectedSchedule' # None
        /\ LET opened == selectedSchedule[1]
               held == ModalBlocks(opened, library)
           IN  /\ \E k \in 1..Len(held) : held[k].status # "confirmed"
               /\ ModalBlocks(selectedSchedule'[1], library') = AllConfirmed(held)
               /\ [selectedSchedule'[1] EXCEPT !.schedule = None] = [opened EXCEPT !.schedule = None]
               /\ Cardinality({j \in 1..Len(messages) : Some(messages[j].id) = opened.messageId}) = 1
               /\ Len(messages') = Len(messages)
               /\ \A j \in 1..Len(messages) :
                     IF Some(messages[j].id) = opened.messageId
                     THEN /\ BlocksOf(messages'[j], library')
                               = AllConfirmed(BlocksOf(messages[j], library))
                          /\ [messages'[j] EXCEPT !.schedule = None]
                               = [messages[j] EXCEPT !.schedule = None]
                     ELSE /\ messages'[j] = messages[j]
                          /\ BlocksOf(messages'[j], library') = BlocksOf(messages[j], library) ]_vars

\* confirm-all was pressed for one of two messages with a schedule: the
\* modal and that message show every block confirmed, the other message
\* still shows a block that is not
C15_Witness ==
  /\ event.name = "confirm-all" /\ selectedSchedule # None
  /\ \A k \in 1..Len(ModalBlocks(selectedSchedule[1], library)) :
        ModalBlocks(selectedSchedule[1], library)[k].status = "confirmed"
  /\ \E i, j \in 1..Len(messages) :
        /\ Some(messages[i].id) = selectedSchedule[1].messageId
        /\ Len(BlocksOf(messages[i], library)) > 1
        /\ BlocksOf(messages[i], library) = ModalBlocks(selectedSchedule[1], library)
        /\ j # i
        /\ \E k \in 1..Len(BlocksOf(messages[j], library)) :
              BlocksOf(messages[j], library)[k].status # "confirmed"

\* the texts the model submits, and what extractOrderInfo makes of them
SubmittedInfos ==
  {extractOrderInfo(text) :
     text \in {SUGGESTED_PROMPTS[i] : i \in 1..Len(SUGGESTED_PROMPTS)} \cup InputTexts}

\* buildSimulationResponse as first called, the fixture being as authored
FirstCall ==
  [info \in {i \in SubmittedInfos : i.projectName # None} |->
     buildSimulationResponse(info.projectName[1], info.quantity)]

\* buildSimulationResponse called in the present state: the schedule is the
\* fixture's array, with the elements it holds now
CallNow(info) ==
  LET built == buildSimulationResponse(info.projectName[1], info.quantity)
      key == simulateShipment(info.projectName[1]).matchedKey
  IN  [built EXCEPT !.schedule = IF built.schedule = None THEN None ELSE library[key]]

\* C16: in every state of the pages the schedule arrays of the fixture
\* table and of the default profile hold the blocks they were authored
\* with, and buildSimulationResponse, called with a project name and
\* quantity that were submitted, returns the narrative, history, schedule
\* and ship date of its first call.
C16_FixtureNeverModified ==
  /\ library = AuthoredSchedules
  /\ \A info \in DOMAIN FirstCall : CallNow(info) = FirstCall[info]

\* every block of a reply was confirmed, in a new array; the fixture array
\* the reply was built from holds a block that is not confirmed, and so
\* does the schedule of a call made now
C16_Witness ==
  /\ page = "simulation"
  /\ \E i \in 1..Len(messages) : \E info \in DOMAIN FirstCall :
        /\ messages[i].role = "assistant" /\ messages[i].schedule # None
        /\ messages[i].schedule[1].array = "new"
        /\ messages[i].content = Narrative(FirstCall[info].narrative)
        /\ \A k \in 1..Len(messages[i].schedule[1].blocks) :
              messages[i].schedule[1].blocks[k].status = "confirmed"
        /\ CallNow(info).schedule # None
        /\ \E k \in 1..Len(CallNow(info).schedule[1]) :
              /\ CallNow(info).schedule[1][k].id = messages[i].schedule[1].blocks[k].id
              /\ CallNow(info).schedule[1][k].status # "confirmed"

\* C17: in the manager view a step in which the call of /api/chat fails,
\* whatever the cause, appends one message, an assistant message with the
\* apology text, clears the generating flag and leaves no call of
\* handleSend pending, so none that could call /api/chat again; and a call
\* becomes pending only by a step of handleSend that accepts a submission.
C17_FailureIsTerminal ==
  /\ [][ (event'.name = "fetch" /\ event'.outcome # "ok") =>
           /\ messages' = Append(messages, messages'[Len(messages')])
           /\ messages'[Len(messages')].role = "assistant"
           /\ messages'[Len(messages')].content = ERROR_MESSAGE
           /\ ~isGenerating'
           /\ request' = None ]_vars
  /\ [][ (page = "manager" /\ Len(request') > Len(request)) =>
           (event'.name = "handleSend" /\ event'.outcome = "accepted") ]_vars

\* the call failed on a status that is not a success: the apology is the last
\* message, after the user's, and the view is idle with no call pending
C17_Witness ==
  /\ page = "manager"
  /\ event.name = "fetch" /\ event.outcome = "not-ok"
  /\ Len(messages) >= 2
  /\ messages[Len(messages)].content = ERROR_MESSAGE
  /\ messages[Len(messages) - 1].role = "user"
  /\ ~isGenerating /\ request = None

MANABU == <<"M", "A", "N", "A", "B", "U">>

TANOUESB == <<"T", "A", "N", "O", "U", "E", "S", "B">>

\* C18: a submission of the login form clears the error and holds the user
\* name and password the fields have at that moment; the manager page comes
\* to be shown only by the step that ends a submission holding MANABU and
\* TANOUESB; the step that ends a submission holding any other pair keeps
\* the login page, not logged in, with the error message set; and the
\* manager view is shown only while logged in.
C18_LoginOnlyWithCredentials ==
  /\ [][ event'.name = "handleSubmit" =>
           /\ error' = <<>>
           /\ submission' = Some([username |-> username, password |-> password]) ]_vars
  /\ [][ (page # "manager" /\ page' = "manager") =>
           /\ event'.name = "login" /\ event'.outcome = "accepted"
           /\ submission = Some([username |-> MANABU, password |-> TANOUESB]) ]_vars
  /\ [][ (event'.name = "login" /\ submission # Some([username |-> MANABU, password |-> TANOUESB])) =>
           /\ page' = "login" /\ ~isLoggedIn'
           /\ error' = LOGIN_ERROR
           /\ event'.outcome = "refused" ]_vars
  /\ [](page = "manager" <=> isLoggedIn)

\* a submission was refused with the error set, although the fields, changed
\* while it was waiting, hold the right user name and password by then
C18_Witness ==
  /\ page = "login" /\ ~isLoggedIn
  /\ event.name = "login" /\ event.outcome = "refused"
  /\ error = LOGIN_ERROR
  /\ username = MANABU /\ password = TANOUESB

\* the manager page is shown after a submission with the right pair
C18_WitnessAccepted ==
  /\ page = "manager" /\ isLoggedIn
  /\ event.name = "login" /\ event.outcome = "accepted"

\* C20: once the simulation view is torn down, no reply timer, no intro
\* interval and no follow-up timer is set, and no step changes the message
\* list: no reply is appended and the intro gets no further character.
C20_NothingAfterTeardown ==
  /\ [](page = "unmounted" => (responseTimeoutRef = None /\ interval = None /\ ~followUpTimeout))
  /\ [][page = "unmounted" => messages' = messages]_vars

\* the view was torn down with a reply pending and the intro not typed out
C20_Witness ==
  /\ page = "unmounted"
  /\ isGenerating
  /\ messages[Len(messages)].role = "user"
  /\ Len(messages[1].content.text) < Len(INTRO_MESSAGE)

\* C21: in the manager view the new-chat action is followed by a state in
\* which the view is loaded again.
C21_LoadedAgainAfterNewChat ==
  (page = "manager" /\ event.name = "handleNewChat") ~> isLoaded

\* a reply of /api/chat or the apology of the catch block
IsAnswer(m) == m.role = "assistant" /\ IsStamped(m)

\* C22: in the manager view every reply or apology of the message list has
\* a user message of its own before it in the list: up to each place of
\* the list there are at least as many user messages as replies and
\* apologies.
C22_AnswerAfterItsUserMessage ==
  page = "manager" =>
    \A i \in 1..Len(messages) :
      Len(SelectSeq(SubSeq(messages, 1, i), IsAnswer))
        <= Len(SelectSeq(SubSeq(messages, 1, i), IsUser))

\* the two digits that end an id
TwoDigits == {"01", "02", "03", "04", "05", "06", "07", "08", "09"}

\* the ids of the form <letter>-<key>-nn; the default profile is named DEFAULT
IdsAuthoredFor(letter, key) ==
  {letter \o "-" \o (IF key = "default" THEN "DEFAULT" ELSE key) \o "-" \o nn : nn \in TwoDigits}

\* the elements of a list that may be absent
Listed(list) == IF list = None THEN <<>> ELSE list[1]

\* C23: every history case the builder returns has an id H-<key>-nn and
\* every schedule block an id S-<key>-nn, <key> being the fixture key the
\* project name matched, DEFAULT when it matched none.
C23_RecordsOfTheMatchedKey ==
  response # None =>
    LET key == simulateShipment(projectName).matchedKey
    IN  /\ \A i \in 1..Len(Listed(response[1].history)) :
              Listed(response[1].history)[i].id \in IdsAuthoredFor("H", key)
        /\ \A i \in 1..Len(Listed(response[1].schedule)) :
              Listed(response[1].schedule)[i].id \in IdsAuthoredFor("S", key)

\* the text of the greeting, the message with the id assistant-1
Greeting == SelectSeq(messages, IsIntro)[1].content

\* the greeting is the first so many characters of the intro text
GreetingIsPrefix ==
  \E n \in 0..Len(MANAGER_INTRO_MESSAGE) : Greeting = Text(SubSeq(MANAGER_INTRO_MESSAGE, 1, n))

\* C24: in a run of the manager page in which the new-chat action is never
\* used, the greeting is in every state of the manager view a prefix of the
\* intro text, and the manager view, once shown, comes to show the intro
\* text in full.
C24_GreetingTypedOut ==
  \/ <>(event.name = "handleNewChat")
  \/ /\ [](page = "manager" => GreetingIsPrefix)
     /\ ((page = "manager") ~> (page = "manager" /\ Greeting = Text(MANAGER_INTRO_MESSAGE)))

\* the text a run of handleSend of the manager view was given
ManagerSubmitted(e) ==
  IF e.via = "prompt" /\ e.arg > 0 THEN MANAGER_SUGGESTED_PROMPTS[e.arg] ELSE inputValue

C25_WitnessScanning ==
  /\ page = "simulation"
  /\ event.name = "handleSend" /\ event.outcome = "accepted"
  /\ isScanning /\ isGenerating

====
